---------------------------- MODULE Spec2Model ----------------------------
(***************************************************************************)
(* Game-library tracker client (app/static/app.js) and the insight        *)
(* aggregation it consumes.                                                *)
(*                                                                         *)
(* JavaScript strings are modelled as sequences of one-character strings   *)
(* so that toLowerCase is computed character by character.  JavaScript     *)
(* values are records [type, str, num].                                    *)
(***************************************************************************)
EXTENDS Integers, Sequences, FiniteSets, TLC

VARIABLES
    statusArg,      \* argument handed to the status registry helpers
    statusDef,      \* last result of getStatusDefinition(statusArg)
    statusOwned,    \* last result of statusRequiresPurchase(statusArg)
    serverGames,    \* the collection behind GET /api/games
    cachedGames,    \* state.cachedGames
    libPc,          \* initLibraryPage.renderLists: "idle" | "fetching"
    libResp,        \* response body of the fetch renderLists awaits
    grouped,        \* renderLists: grouped[status] after sorting
    libRendered,    \* whether renderLists has rendered at least once
    heldGames,      \* the array an earlier fetchAndCacheGames() caller still holds
    genreGames,     \* the game collection the genre aggregator is given
    genreOut,       \* the genre summary computed from genreGames
    domWeights,     \* one genre's accumulated metrics per bucket
    domOut,         \* the dominance classification of domWeights
    lifeSamples,    \* one lifecycle stage's duration samples, in game order
    lifeStats,      \* the stage's LifecycleStageStats computed from lifeSamples
    periodKind,     \* engagement period width: "weekly" | "monthly"
    sessions,       \* the session collection the engagement detector is given
    engagement,     \* the engagement summary computed from sessions
    today,          \* the current date, as a day number
    accumulator,    \* what the aggregator's last request left in its working state
    aggFirst,       \* first run of the aggregation on the snapshot
    aggSecond,      \* second run of the aggregation on the same snapshot
    engagementColorMap,     \* state.engagementColorMap
    engagementPaletteIndex, \* state.engagementPaletteIndex
    lastColor,      \* what the last getEngagementColor call returned
    fmtCall,  \* the formatter last called, with its arguments
    fmtOut, \* what that call returned or threw
    lifeGames,  \* the game collection behind GET /api/insights/lifecycle
    lifecycleSummary,  \* the lifecycle summary the page fetched
    lifecycleView, \* what renderLifecycleSummary put on the page
    sessGames,  \* cachedGames of the sessions page (the datalist options follow it)
    sessForm,  \* the session form: typed title and hidden game id
    sessPayload, \* what the last submit posted to /api/sessions
    genreBody,  \* the body of GET /api/insights/genres the page holds
    genreView, \* what renderGenreInsights put on the page
    insightBuckets,  \* state.insightBuckets.order
    sentimentBody,  \* the body of GET /api/insights/genre-sentiment the page holds
    sentimentView, \* what renderGenreSentimentComparison put on the page
    pageState,  \* root.dataset.state of the insights page
    responses,  \* the four fetchJSON promises of initInsightsPage
    sections, \* what each section of the insights page shows
    lastKey, \* the key the last getEngagementColor call was given
    gameForm,  \* the fields of the game form being submitted
    gameRequest,  \* the create or update request the form sent
    gameMessage, \* the form's message line
    gamesRequests, \* the GET /api/games requests of fetchAndCacheGames, in the order issued
    steamAppIdInput,  \* the App ID field of the add-game form (0: empty)
    steamLookupToken,  \* steamLookupToken
    steamLookupTimeout,  \* the pending debounce timer: the App ID it will look up (0: none)
    steamLookups,  \* the Steam lookups in flight
    steamPreview,  \* the genre and artwork preview
    steamStatus,  \* the text under the App ID field
    titleInput,  \* the title field and who wrote it last
    titleAutofilled,  \* titleAutofilled
    addGamePost, \* the add-game form's POST /api/games and what happened since
    rankSelected,  \* statusSelect.value of the rankings page
    rankRequests,  \* the rankings page's requests in flight
    rankIssued,  \* how many requests the rankings page has issued
    loadingPair,  \* state.loadingPair
    submitting,  \* state.submitting
    pairShown,  \* what the matchup container shows
    rankingShown, \* the status whose ranking the list shows
    pairState,  \* pairState of the combined page, per status
    panelShown,  \* what each matchup container of the combined page shows
    panelRequests,  \* the matchup panels' requests in flight
    panelIssued, \* how many requests the matchup panels have issued
    acCopy,  \* which copy of the session form is running
    sessionGameInput,  \* sessionGameInput.value
    sessionGameMatches,  \* sessionGameMatches
    sessionGameHighlightIndex,  \* sessionGameHighlightIndex
    sessionGameItems,  \* the option items in the list box
    sessionGamePicked  \* the last game picked with Enter in the field, and the text it was picked for

statusVars == <<statusArg, statusDef, statusOwned>>
libVars == <<serverGames, cachedGames, libPc, libResp, grouped, libRendered,
            heldGames>>
genreVars == <<genreGames, genreOut>>
domVars == <<domWeights, domOut>>
lifeVars == <<lifeSamples, lifeStats>>
engVars == <<periodKind, sessions, engagement>>
aggVars == <<today, accumulator, aggFirst, aggSecond>>
colorVars == <<engagementColorMap, engagementPaletteIndex, lastColor>>
fmtVars == <<fmtCall, fmtOut>>
stageVars == <<lifeGames, lifecycleSummary, lifecycleView>>
sessVars == <<sessGames, sessForm, sessPayload>>
gviewVars == <<genreBody, genreView>>
sentVars == <<insightBuckets, sentimentBody, sentimentView>>
pageVars == <<pageState, responses, sections>>
ckeyVars == <<lastKey>>
gformVars == <<gameForm, gameRequest, gameMessage>>
fetchVars == <<gamesRequests>>
steamVars == <<steamAppIdInput, steamLookupToken, steamLookupTimeout, steamLookups, steamPreview, steamStatus, titleInput, titleAutofilled, addGamePost>>
rankVars == <<rankSelected, rankRequests, rankIssued, loadingPair, submitting, pairShown, rankingShown>>
panelVars == <<pairState, panelShown, panelRequests, panelIssued>>
acVars == <<acCopy, sessionGameInput, sessionGameMatches, sessionGameHighlightIndex, sessionGameItems, sessionGamePicked>>
vars == <<statusVars, libVars, genreVars, domVars, lifeVars, engVars,
          aggVars, colorVars, fmtVars, stageVars, sessVars, gviewVars,
          sentVars, pageVars, ckeyVars, gformVars, fetchVars, steamVars,
          rankVars, panelVars, acVars>>

\* everything but one component's variables
exceptStatus == <<libVars, genreVars, domVars, lifeVars, engVars, aggVars, colorVars, fmtVars, stageVars, sessVars, gviewVars, sentVars, pageVars, ckeyVars, gformVars, fetchVars, steamVars, rankVars, panelVars, acVars>>
exceptLib == <<statusVars, genreVars, domVars, lifeVars, engVars, aggVars, colorVars, fmtVars, stageVars, sessVars, gviewVars, sentVars, pageVars, ckeyVars, gformVars, fetchVars, steamVars, rankVars, panelVars, acVars>>
exceptGenre == <<statusVars, libVars, domVars, lifeVars, engVars, aggVars, colorVars, fmtVars, stageVars, sessVars, gviewVars, sentVars, pageVars, ckeyVars, gformVars, fetchVars, steamVars, rankVars, panelVars, acVars>>
exceptDom == <<statusVars, libVars, genreVars, lifeVars, engVars, aggVars, colorVars, fmtVars, stageVars, sessVars, gviewVars, sentVars, pageVars, ckeyVars, gformVars, fetchVars, steamVars, rankVars, panelVars, acVars>>
exceptLife == <<statusVars, libVars, genreVars, domVars, engVars, aggVars, colorVars, fmtVars, stageVars, sessVars, gviewVars, sentVars, pageVars, ckeyVars, gformVars, fetchVars, steamVars, rankVars, panelVars, acVars>>
exceptEng == <<statusVars, libVars, genreVars, domVars, lifeVars, aggVars, colorVars, fmtVars, stageVars, sessVars, gviewVars, sentVars, pageVars, ckeyVars, gformVars, fetchVars, steamVars, rankVars, panelVars, acVars>>
exceptAgg == <<statusVars, libVars, domVars, lifeVars, colorVars, fmtVars, stageVars, sessVars, gviewVars, sentVars, pageVars, ckeyVars, gformVars, fetchVars, steamVars, rankVars, panelVars, acVars>>
exceptColor == <<statusVars, libVars, genreVars, domVars, lifeVars, engVars, aggVars, fmtVars, stageVars, sessVars, gviewVars, sentVars, pageVars, ckeyVars, gformVars, fetchVars, steamVars, rankVars, panelVars, acVars>>
exceptFmt == <<statusVars, libVars, genreVars, domVars, lifeVars, engVars, aggVars, colorVars, stageVars, sessVars, gviewVars, sentVars, pageVars, ckeyVars, gformVars, fetchVars, steamVars, rankVars, panelVars, acVars>>
exceptStage == <<statusVars, libVars, genreVars, domVars, lifeVars, engVars, aggVars, colorVars, fmtVars, sessVars, gviewVars, sentVars, pageVars, ckeyVars, gformVars, fetchVars, steamVars, rankVars, panelVars, acVars>>
exceptSess == <<statusVars, libVars, genreVars, domVars, lifeVars, engVars, aggVars, colorVars, fmtVars, stageVars, gviewVars, sentVars, pageVars, ckeyVars, gformVars, fetchVars, steamVars, rankVars, panelVars, acVars>>
exceptGview == <<statusVars, libVars, genreVars, domVars, lifeVars, engVars, aggVars, colorVars, fmtVars, stageVars, sessVars, sentVars, pageVars, ckeyVars, gformVars, fetchVars, steamVars, rankVars, panelVars, acVars>>
exceptSent == <<statusVars, libVars, genreVars, domVars, lifeVars, engVars, aggVars, colorVars, fmtVars, stageVars, sessVars, gviewVars, pageVars, ckeyVars, gformVars, fetchVars, steamVars, rankVars, panelVars, acVars>>
exceptPage == <<statusVars, libVars, genreVars, domVars, lifeVars, engVars, aggVars, colorVars, fmtVars, stageVars, sessVars, gviewVars, sentVars, ckeyVars, gformVars, fetchVars, steamVars, rankVars, panelVars, acVars>>
exceptPageSent == <<statusVars, libVars, genreVars, domVars, lifeVars, engVars, aggVars, colorVars, fmtVars, stageVars, sessVars, gviewVars, ckeyVars, gformVars, fetchVars, steamVars, rankVars, panelVars, acVars>>
exceptCkey == <<statusVars, libVars, genreVars, domVars, lifeVars, engVars, aggVars, colorVars, fmtVars, stageVars, sessVars, gviewVars, sentVars, pageVars, gformVars, fetchVars, steamVars, rankVars, panelVars, acVars>>
exceptColorCall == <<statusVars, libVars, genreVars, domVars, lifeVars, engVars, aggVars, fmtVars, stageVars, sessVars, gviewVars, sentVars, pageVars, gformVars, fetchVars, steamVars, rankVars, panelVars, acVars>>
exceptGform == <<statusVars, libVars, genreVars, domVars, lifeVars, engVars, aggVars, colorVars, fmtVars, stageVars, sessVars, gviewVars, sentVars, pageVars, ckeyVars, fetchVars, steamVars, rankVars, panelVars, acVars>>
exceptFetch == <<statusVars, libVars, genreVars, domVars, lifeVars, engVars, aggVars, colorVars, fmtVars, stageVars, sessVars, gviewVars, sentVars, pageVars, ckeyVars, gformVars, steamVars, rankVars, panelVars, acVars>>
exceptLibFetch == <<statusVars, genreVars, domVars, lifeVars, engVars, aggVars, colorVars, fmtVars, stageVars, sessVars, gviewVars, sentVars, pageVars, ckeyVars, gformVars, steamVars, rankVars, panelVars, acVars>>
exceptSteam == <<statusVars, libVars, genreVars, domVars, lifeVars, engVars, aggVars, colorVars, fmtVars, stageVars, sessVars, gviewVars, sentVars, pageVars, ckeyVars, gformVars, fetchVars, rankVars, panelVars, acVars>>
exceptRank == <<statusVars, libVars, genreVars, domVars, lifeVars, engVars, aggVars, colorVars, fmtVars, stageVars, sessVars, gviewVars, sentVars, pageVars, ckeyVars, gformVars, fetchVars, steamVars, panelVars, acVars>>
exceptPanel == <<statusVars, libVars, genreVars, domVars, lifeVars, engVars, aggVars, colorVars, fmtVars, stageVars, sessVars, gviewVars, sentVars, pageVars, ckeyVars, gformVars, fetchVars, steamVars, rankVars, acVars>>
exceptAc == <<statusVars, libVars, genreVars, domVars, lifeVars, engVars, aggVars, colorVars, fmtVars, stageVars, sessVars, gviewVars, sentVars, pageVars, ckeyVars, gformVars, fetchVars, steamVars, rankVars, panelVars>>

---------------------------------------------------------------------------
(* JavaScript strings and values *)

UpperChars ==
    <<"A","B","C","D","E","F","G","H","I","J","K","L","M",
      "N","O","P","Q","R","S","T","U","V","W","X","Y","Z">>

LowerChars ==
    <<"a","b","c","d","e","f","g","h","i","j","k","l","m",
      "n","o","p","q","r","s","t","u","v","w","x","y","z">>

LowerChar(c) ==
    IF \E i \in DOMAIN UpperChars : UpperChars[i] = c
    THEN LowerChars[CHOOSE i \in DOMAIN UpperChars : UpperChars[i] = c]
    ELSE c

\* String.prototype.toLowerCase
toLowerCase(s) == [i \in DOMAIN s |-> LowerChar(s[i])]

UpperChar(c) ==
    IF \E i \in DOMAIN LowerChars : LowerChars[i] = c
    THEN UpperChars[CHOOSE i \in DOMAIN LowerChars : LowerChars[i] = c]
    ELSE c

toUpperCase(s) == [i \in DOMAIN s |-> UpperChar(s[i])]

Capitalize(s) == [i \in DOMAIN s |-> IF i = 1 THEN UpperChar(s[i]) ELSE s[i]]

JsStr(s) == [type |-> "string", str |-> s, num |-> 0]
JsNum(n) == [type |-> "number", str |-> <<>>, num |-> n]
JsBool(b) == [type |-> "boolean", str |-> <<>>, num |-> IF b THEN 1 ELSE 0]
JsNull == [type |-> "null", str |-> <<>>, num |-> 0]
JsUndefined == [type |-> "undefined", str |-> <<>>, num |-> 0]

\* ToBoolean
JsTruthy(v) ==
    CASE v.type = "string" -> Len(v.str) > 0
      [] v.type = "number" -> v.num # 0
      [] v.type = "boolean" -> v.num = 1
      [] OTHER -> FALSE

DigitChars == <<"0","1","2","3","4","5","6","7","8","9">>

\* String(v), for the values the model draws (numbers are 0..9)
JsToString(v) ==
    CASE v.type = "string" -> v.str
      [] v.type = "number" -> <<DigitChars[v.num + 1]>>
      [] v.type = "boolean" ->
            IF v.num = 1 THEN <<"t","r","u","e">> ELSE <<"f","a","l","s","e">>
      [] v.type = "null" -> <<"n","u","l","l">>
      [] OTHER -> <<"u","n","d","e","f","i","n","e","d">>

\* value || ""
OrEmpty(v) == IF JsTruthy(v) THEN v ELSE JsStr(<<>>)

---------------------------------------------------------------------------
(* Status bucket registry *)

S_backlog == <<"b","a","c","k","l","o","g">>
S_playing == <<"p","l","a","y","i","n","g">>
S_occasional == <<"o","c","c","a","s","i","o","n","a","l">>
S_story_clear == <<"s","t","o","r","y","_","c","l","e","a","r">>
S_full_clear == <<"f","u","l","l","_","c","l","e","a","r">>
S_dropped == <<"d","r","o","p","p","e","d">>
S_wishlist == <<"w","i","s","h","l","i","s","t">>
S_archived == <<"a","r","c","h","i","v","e","d">>
S_constructor == <<"c","o","n","s","t","r","u","c","t","o","r">>
S_proto == <<"_","_","p","r","o","t","o","_","_">>
S_toString == <<"t","o","S","t","r","i","n","g">>
S_valueOf == <<"v","a","l","u","e","O","f">>
S_hasOwnProperty == <<"h","a","s","O","w","n","P","r","o","p","e","r","t","y">>

StatusEntry(v, l, r, g, e) ==
    [kind |-> "entry", value |-> v, label |-> l,
     requiresPurchaseDate |-> r, group |-> g, emptyCopy |-> e]

STATUS_TAXONOMY ==
    << StatusEntry(S_backlog, "Backlog", TRUE, "owned", "No backlog games yet."),
       StatusEntry(S_playing, "Playing", TRUE, "owned",
                   "No games are currently marked as playing."),
       StatusEntry(S_occasional, "Occasional", TRUE, "owned",
                   "No occasional rotation titles yet."),
       StatusEntry(S_story_clear, "Story clear", TRUE, "owned",
                   "No story clears logged yet."),
       StatusEntry(S_full_clear, "Full clear", TRUE, "owned",
                   "No full clears recorded yet."),
       StatusEntry(S_dropped, "Dropped", TRUE, "owned", "No dropped games yet."),
       StatusEntry(S_wishlist, "Wishlist", FALSE, "wishlist",
                   "No wishlist games yet.") >>

RegistryValues == {STATUS_TAXONOMY[i].value : i \in DOMAIN STATUS_TAXONOMY}

\* null, and the value of a property an ordinary object inherits from
\* Object.prototype (a function or an object: truthy, not a registry entry)
NullDef ==
    [kind |-> "null", value |-> <<>>, label |-> "",
     requiresPurchaseDate |-> FALSE, group |-> "", emptyCopy |-> ""]

InheritedValue(key) ==
    [kind |-> "inherited", value |-> key, label |-> "",
     requiresPurchaseDate |-> FALSE, group |-> "", emptyCopy |-> ""]

UndefinedDef ==
    [kind |-> "undefined", value |-> <<>>, label |-> "",
     requiresPurchaseDate |-> FALSE, group |-> "", emptyCopy |-> ""]

\* property names every ordinary object inherits (those the model can spell)
ObjectPrototypeKeys ==
    {S_constructor, S_proto, S_toString, S_valueOf, S_hasOwnProperty}

\* STATUS_LOOKUP[key]: STATUS_LOOKUP is built by Object.fromEntries, an
\* ordinary object whose prototype is Object.prototype
STATUS_LOOKUP(key) ==
    IF key \in RegistryValues
    THEN STATUS_TAXONOMY[CHOOSE i \in DOMAIN STATUS_TAXONOMY :
                            STATUS_TAXONOMY[i].value = key]
    ELSE IF key \in ObjectPrototypeKeys THEN InheritedValue(key)
    ELSE UndefinedDef

\* new Set(STATUS_TAXONOMY.filter(requiresPurchaseDate).map(value))
OWNED_STATUS_SET ==
    {STATUS_TAXONOMY[i].value :
        i \in {j \in DOMAIN STATUS_TAXONOMY : STATUS_TAXONOMY[j].requiresPurchaseDate}}

DEFAULT_STATUS == S_backlog

\* STATUS_LOOKUP[String(value || "").toLowerCase()] || null
getStatusDefinition(value) ==
    LET found == STATUS_LOOKUP(toLowerCase(JsToString(OrEmpty(value))))
    IN  IF found.kind = "undefined" THEN NullDef ELSE found

statusRequiresPurchaseCaseSensitive(value) ==
    JsToString(OrEmpty(value)) \in OWNED_STATUS_SET

\* OWNED_STATUS_SET.has(String(value || "").toLowerCase())
statusRequiresPurchase(value) ==
    toLowerCase(JsToString(OrEmpty(value))) \in OWNED_STATUS_SET

---------------------------------------------------------------------------
(* Registry helpers applied to one argument *)

StatusWords ==
    RegistryValues
    \cup {Capitalize(s) : s \in RegistryValues}
    \cup {toUpperCase(s) : s \in RegistryValues}
    \cup {S_archived, S_constructor, toUpperCase(S_constructor), S_proto,
          S_toString, S_valueOf, S_hasOwnProperty, <<>>}

StatusInputs ==
    {JsStr(s) : s \in StatusWords}
    \cup {JsNull, JsUndefined, JsNum(0), JsNum(7), JsBool(TRUE), JsBool(FALSE)}

NotCalledDef == [called |-> FALSE, result |-> NullDef]
NotCalledOwned == [called |-> FALSE, result |-> FALSE]

StatusInit ==
    /\ statusArg \in StatusInputs
    /\ statusDef = NotCalledDef
    /\ statusOwned = NotCalledOwned

StatusIdle ==
    /\ statusArg = JsNull
    /\ statusDef = NotCalledDef
    /\ statusOwned = NotCalledOwned

CallGetStatusDefinition ==
    /\ ~statusDef.called
    /\ statusDef' = [called |-> TRUE, result |-> getStatusDefinition(statusArg)]
    /\ UNCHANGED <<statusArg, statusOwned, exceptStatus>>

CallStatusRequiresPurchase ==
    /\ ~statusOwned.called
    /\ statusOwned' = [called |-> TRUE, result |-> statusRequiresPurchase(statusArg)]
    /\ UNCHANGED <<statusArg, statusDef, exceptStatus>>

---------------------------------------------------------------------------
(* Library page: initLibraryPage.renderLists *)

MaxGames == 2

GameStatuses ==
    {JsStr(S_backlog), JsStr(toUpperCase(S_wishlist)), JsStr(S_archived),
     JsStr(S_constructor), JsNull}

EloRatings == {1400, 1500}

Game(id, status, elo) == [id |-> id, status |-> status, elo_rating |-> elo]

EmptyGroups == [s \in RegistryValues |-> <<>>]

\* games.forEach: grouped[normalizedStatus].push(game), in one pass
RECURSIVE GroupFrom(_, _, _)
GroupFrom(games, i, acc) ==
    IF i > Len(games) THEN acc
    ELSE LET def == getStatusDefinition(games[i].status)
             \* getStatusDefinition(game.status)?.value || DEFAULT_STATUS
             normalizedStatus ==
                 IF def.kind = "entry" THEN def.value ELSE DEFAULT_STATUS
         IN  GroupFrom(games, i + 1,
                 [acc EXCEPT ![normalizedStatus] = Append(@, games[i])])

GroupByStatusDropUnknown(games) ==
    [s \in RegistryValues |->
        SelectSeq(games, LAMBDA g : getStatusDefinition(g.status).kind = "entry"
                                     /\ getStatusDefinition(g.status).value = s)]

GroupByStatus(games) == GroupFrom(games, 1, EmptyGroups)

\* (Number(b.elo_rating) || 0) - (Number(a.elo_rating) || 0) > 0: b goes first
RECURSIVE InsertByElo(_, _)
InsertByElo(sorted, g) ==
    IF sorted = <<>> THEN <<g>>
    ELSE IF g.elo_rating > Head(sorted).elo_rating
         THEN <<g>> \o sorted
         ELSE <<Head(sorted)>> \o InsertByElo(Tail(sorted), g)

\* Array.prototype.sort(byEloDesc): stable
RECURSIVE SortByEloDesc(_)
SortByEloDesc(s) ==
    IF s = <<>> THEN <<>>
    ELSE InsertByElo(SortByEloDesc(SubSeq(s, 1, Len(s) - 1)), s[Len(s)])

\* aliased: the held array is the one state.cachedGames refers to
NotHeld == [held |-> FALSE, aliased |-> FALSE, games |-> <<>>]

LibInit ==
    /\ serverGames = <<>>
    /\ cachedGames = <<>>
    /\ libPc = "idle"
    /\ libResp = <<>>
    /\ grouped = EmptyGroups
    /\ libRendered = FALSE
    /\ heldGames = NotHeld

\* the collection behind /api/games grows (add-game form, imports)
ServerAddGameFrom(statuses, ratings) ==
    /\ Len(serverGames) < MaxGames
    /\ \E st \in statuses, elo \in ratings :
          serverGames' = Append(serverGames, Game(Len(serverGames) + 1, st, elo))
    /\ UNCHANGED <<cachedGames, libPc, libResp, grouped, libRendered, heldGames,
                   exceptLib>>

ServerAddGame == ServerAddGameFrom(GameStatuses, EloRatings)

\* the same, for a library of backlog games only
ServerAddBacklogGame == ServerAddGameFrom({JsStr(S_backlog)}, EloRatings)

\* a caller keeps what fetchAndCacheGames() returns from the cache
HoldCachedGames ==
    /\ ~heldGames.held
    /\ Len(cachedGames) > 0
    /\ heldGames' = [held |-> TRUE, aliased |-> TRUE, games |-> cachedGames]
    /\ UNCHANGED <<serverGames, cachedGames, libPc, libResp, grouped, libRendered,
                   exceptLib>>

\* state.cachedGames = games: the response array becomes the cache and the
\* array that was the cache is left as it is
fetchAndCacheGames(cachedArray, games) ==
    [cachedGames |-> games, previous |-> cachedArray]

\* renderLists up to its await: fetchAndCacheGames({force: true}) issues the GET
RenderListsStart ==
    /\ libPc = "idle"
    /\ libPc' = "fetching"
    /\ libResp' = serverGames
    /\ UNCHANGED <<serverGames, cachedGames, grouped, libRendered, heldGames,
                   exceptLib>>

\* the response arrives: state.cachedGames = games, then group and sort
RenderListsFinish ==
    /\ libPc = "fetching"
    /\ LET fetched == fetchAndCacheGames(cachedGames, libResp)
       IN  /\ cachedGames' = fetched.cachedGames
           /\ heldGames' =
                 IF heldGames.aliased
                 THEN [held |-> TRUE, aliased |-> FALSE, games |-> fetched.previous]
                 ELSE heldGames
    /\ grouped' = [s \in RegistryValues |-> SortByEloDesc(GroupByStatus(libResp)[s])]
    /\ libRendered' = TRUE
    /\ libPc' = "idle"
    /\ libResp' = <<>>
    /\ UNCHANGED <<serverGames, exceptLib>>

---------------------------------------------------------------------------
(* Genre aggregator (GET /api/insights/genres), modelled from the           *)
(* specification: sections 3 and 4.2.  Shares and averages are exact        *)
(* fractions [num, den].                                                    *)

MaxGenreGames == 3
MaxBucketWeight == 5

G_RPG == <<"R","P","G">>
G_Action == <<"A","c","t","i","o","n">>
G_Empty == <<>>
G_Spaces == <<" "," ">>
S_balanced == <<"b","a","l","a","n","c","e","d">>

WhitespaceChars == {" ", "\t", "\n"}

\* a blank or whitespace-only genre string
IsBlankGenre(g) == \A i \in DOMAIN g : g[i] \in WhitespaceChars

\* every genre string the model's games carry
GenreLabels == {G_RPG, G_Action, G_Empty, G_Spaces}

\* stable bucket-declaration order from the registry
BucketOrder == [i \in DOMAIN STATUS_TAXONOMY |-> STATUS_TAXONOMY[i].value]
Buckets == RegistryValues

\* unknown status values are coerced to the default bucket
BucketOfStatus(status) ==
    LET lowered == toLowerCase(JsToString(OrEmpty(status)))
    IN  IF lowered \in RegistryValues THEN lowered ELSE DEFAULT_STATUS

Frac(n, d) == [num |-> n, den |-> d]

ZeroMetrics == [weight |-> 0, count |-> 0, eloSum |-> 0]

EmptyAccumulator ==
    [order |-> <<>>,
     total |-> [g \in GenreLabels |-> ZeroMetrics],
     buckets |-> [g \in GenreLabels |-> [b \in Buckets |-> ZeroMetrics]],
     games |-> [b \in Buckets |-> 0]]

AddMetrics(m, elo) ==
    [weight |-> m.weight + 1, count |-> m.count + 1, eloSum |-> m.eloSum + elo]

\* one genre tag of one game: weight 1 for the genre, in the game's bucket
AddTag(acc, genre, bucket, elo) ==
    [acc EXCEPT
        !.order = IF \E i \in DOMAIN @ : @[i] = genre THEN @ ELSE Append(@, genre),
        !.total[genre] = AddMetrics(@, elo),
        !.buckets[genre][bucket] = AddMetrics(@, elo)]

\* the genre tags of a game that count: blank ones are excluded
CountingTagsKeepBlank(game) == game.genres

CountingTags(game) == SelectSeq(game.genres, LAMBDA g : ~IsBlankGenre(g))

RECURSIVE AddTags(_, _, _, _)
AddTags(acc, tags, bucket, elo) ==
    IF tags = <<>> THEN acc
    ELSE AddTags(AddTag(acc, Head(tags), bucket, elo), Tail(tags), bucket, elo)

\* a game with no counting tag contributes nothing
AccumulateGame(acc, game) ==
    LET tags == CountingTags(game)
        bucket == BucketOfStatus(game.status)
    IN  IF tags = <<>> THEN acc
        ELSE [AddTags(acc, tags, bucket, game.elo_rating)
                 EXCEPT !.games[bucket] = @ + 1]

RECURSIVE AccumulateFrom(_, _, _)
AccumulateFrom(games, i, acc) ==
    IF i > Len(games) THEN acc
    ELSE AccumulateFrom(games, i + 1, AccumulateGame(acc, games[i]))

RECURSIVE SumWeights(_, _)
SumWeights(f, S) ==
    IF S = {} THEN 0
    ELSE LET x == CHOOSE y \in S : TRUE IN f[x].weight + SumWeights(f, S \ {x})

\* first bucket, in declaration order, holding the largest weight
TopBucket(bw) ==
    BucketOrder[CHOOSE i \in DOMAIN BucketOrder :
        /\ \A j \in DOMAIN BucketOrder : bw[BucketOrder[j]].weight <= bw[BucketOrder[i]].weight
        /\ \A j \in 1..(i - 1) : bw[BucketOrder[j]].weight < bw[BucketOrder[i]].weight]

DominanceAtLeastHalf(bw) ==
    LET total == SumWeights(bw, Buckets)
        top == TopBucket(bw)
    IN  IF total > 0 /\ bw[top].weight * 2 >= total
        THEN [dominant |-> top, dominant_share |-> Frac(bw[top].weight, total)]
        ELSE [dominant |-> S_balanced, dominant_share |-> Frac(0, 1)]

\* the top bucket when its fraction of the genre's weight exceeds 60%
Dominance(bw) ==
    LET total == SumWeights(bw, Buckets)
        top == TopBucket(bw)
    IN  IF total > 0 /\ bw[top].weight * 100 > 60 * total
        THEN [dominant |-> top, dominant_share |-> Frac(bw[top].weight, total)]
        ELSE [dominant |-> S_balanced, dominant_share |-> Frac(0, 1)]

\* weight of this scope's genre / sum of the weights of all genres in the scope
ShareOfGames(weight, scopeWeight, scopeGames) ==
    IF scopeGames = 0 THEN Frac(0, 1) ELSE Frac(weight, scopeGames)

Share(weight, scopeWeight, scopeGames) ==
    IF scopeWeight = 0 THEN Frac(0, 1) ELSE Frac(weight, scopeWeight)

RECURSIVE SumNat(_, _)
SumNat(f, S) ==
    IF S = {} THEN 0
    ELSE LET x == CHOOSE y \in S : TRUE IN f[x] + SumNat(f, S \ {x})

WithShare(m, scopeWeight, scopeGames) ==
    [weight |-> m.weight, count |-> m.count,
     average_elo |-> IF m.count = 0 THEN Frac(0, 0) ELSE Frac(m.eloSum, m.count),
     share |-> Share(m.weight, scopeWeight, scopeGames)]

GenreSummaryOf(acc) ==
    LET allWeight == SumWeights(acc.total, GenreLabels)
        allGames == SumNat(acc.games, Buckets)
        bucketWeight == [b \in Buckets |->
            SumWeights([g \in GenreLabels |-> acc.buckets[g][b]], GenreLabels)]
    IN  [genres |->
            [i \in DOMAIN acc.order |->
                LET g == acc.order[i]
                    dom == Dominance(acc.buckets[g])
                IN  [genre |-> g,
                     total |-> WithShare(acc.total[g], allWeight, allGames),
                     buckets |-> [b \in Buckets |->
                        WithShare(acc.buckets[g][b], bucketWeight[b], acc.games[b])],
                     dominant |-> dom.dominant,
                     dominant_share |-> dom.dominant_share]],
         bucket_order |-> BucketOrder,
         buckets |-> [b \in Buckets |->
            [total_games |-> acc.games[b], total_weight |-> bucketWeight[b]]]]

\* entries are rebuilt on every request, from an empty accumulator
GenreSummary(games) == GenreSummaryOf(AccumulateFrom(games, 1, EmptyAccumulator))

GenreStatuses == {JsStr(S_backlog), JsStr(S_wishlist), JsStr(S_archived)}

GenreTagLists ==
    {<<>>, <<G_RPG>>, <<G_Action, G_RPG>>, <<G_RPG, G_Spaces>>, <<G_Empty>>}

\* an absent (optional) date
NoDate == -1

DatedGame(id, status, elo, genres, purchase, start, finish) ==
    [id |-> id, status |-> status, elo_rating |-> elo, genres |-> genres,
     purchase_date |-> purchase, start_date |-> start, finish_date |-> finish]

GenreGame(id, status, elo, genres) ==
    DatedGame(id, status, elo, genres, NoDate, NoDate, NoDate)

\* ratings differ from game to game: the n-th game added is rated 1400 + 50 n
GenreElo(n) == 1400 + 50 * n

NoGenreOut == [computed |-> FALSE, summary |-> GenreSummary(<<>>)]

GenreInit ==
    /\ genreGames = <<>>
    /\ genreOut = NoGenreOut

\* the tracked collection changes: the next request sees another snapshot
GenreAddGame ==
    /\ Len(genreGames) < MaxGenreGames
    /\ \E st \in GenreStatuses, tags \in GenreTagLists :
          genreGames' = Append(genreGames,
              GenreGame(Len(genreGames) + 1, st, GenreElo(Len(genreGames) + 1), tags))
    /\ genreOut' = NoGenreOut
    /\ UNCHANGED exceptGenre

\* one request for the genre summary
ComputeGenreSummary ==
    /\ ~genreOut.computed
    /\ genreOut' = [computed |-> TRUE, summary |-> GenreSummary(genreGames)]
    /\ UNCHANGED <<genreGames, exceptGenre>>

\* buckets whose weights the dominance inputs vary
DomBuckets == {S_backlog, S_playing, S_wishlist}

NoDomOut == [computed |-> FALSE, dominant |-> S_balanced, dominant_share |-> Frac(0, 1)]

DomInit ==
    /\ \E w \in [DomBuckets -> 0..MaxBucketWeight] :
          /\ \E b \in DomBuckets : w[b] > 0
          /\ domWeights = [b \in Buckets |->
                IF b \in DomBuckets
                THEN [weight |-> w[b], count |-> w[b], eloSum |-> 0]
                ELSE ZeroMetrics]
    /\ domOut = NoDomOut

DomIdle ==
    /\ domWeights = [b \in Buckets |-> ZeroMetrics]
    /\ domOut = NoDomOut

ClassifyDominance ==
    /\ ~domOut.computed
    /\ domOut' = [computed |-> TRUE,
                  dominant |-> Dominance(domWeights).dominant,
                  dominant_share |-> Dominance(domWeights).dominant_share]
    /\ UNCHANGED <<domWeights, exceptDom>>

---------------------------------------------------------------------------
(* Lifecycle duration analyzer (GET /api/insights/lifecycle), modelled from *)
(* the specification: section 4.4.  Statistics are exact fractions of a     *)
(* day; an undefined statistic has denominator 0.                           *)

MaxSamples == 4
MaxDuration == 4

Undefined == Frac(0, 0)

RECURSIVE InsertAscending(_, _)
InsertAscending(sorted, d) ==
    IF sorted = <<>> THEN <<d>>
    ELSE IF d < Head(sorted)
         THEN <<d>> \o sorted
         ELSE <<Head(sorted)>> \o InsertAscending(Tail(sorted), d)

Unsorted(samples) == samples

\* the samples in ascending order
RECURSIVE SortAscending(_)
SortAscending(samples) ==
    IF samples = <<>> THEN <<>>
    ELSE InsertAscending(SortAscending(Tail(samples)), Head(samples))

\* sorted-array midpoint; the average of the two middles for even counts
Median(sorted) ==
    LET n == Len(sorted)
    IN  IF n = 0 THEN Undefined
        ELSE IF n % 2 = 1 THEN Frac(100 * sorted[(n + 1) \div 2], 100)
        ELSE Frac(50 * (sorted[n \div 2] + sorted[n \div 2 + 1]), 100)

\* linear interpolation between order statistics: rank p/100 * (n - 1)
Percentile(sorted, p) ==
    LET n == Len(sorted)
        lower == (p * (n - 1)) \div 100
        rest == (p * (n - 1)) % 100
        upper == IF lower + 2 <= n THEN lower + 2 ELSE n
    IN  IF n = 0 THEN Undefined
        ELSE Frac(100 * sorted[lower + 1]
                    + rest * (sorted[upper] - sorted[lower + 1]), 100)

RECURSIVE SumSamples(_)
SumSamples(samples) ==
    IF samples = <<>> THEN 0 ELSE Head(samples) + SumSamples(Tail(samples))

StageStatistics(samples) ==
    LET sorted == SortAscending(samples)
    IN  [count |-> Len(samples),
         mean |-> IF samples = <<>> THEN Undefined
                  ELSE Frac(SumSamples(samples), Len(samples)),
         median |-> Median(sorted),
         percentiles |-> [p25 |-> Percentile(sorted, 25),
                          p75 |-> Percentile(sorted, 75),
                          p90 |-> Percentile(sorted, 90)]]

NoLifeStats == [computed |-> FALSE, statistics |-> StageStatistics(<<>>)]

LifeInit ==
    /\ lifeSamples = <<>>
    /\ lifeStats = NoLifeStats

\* one more game has both dates of the stage, d days apart
LifeAddSample ==
    /\ Len(lifeSamples) < MaxSamples
    /\ \E d \in 0..MaxDuration : lifeSamples' = Append(lifeSamples, d)
    /\ lifeStats' = NoLifeStats
    /\ UNCHANGED exceptLife

\* one request for the lifecycle summary
ComputeStageStatistics ==
    /\ ~lifeStats.computed
    /\ lifeStats' = [computed |-> TRUE, statistics |-> StageStatistics(lifeSamples)]
    /\ UNCHANGED <<lifeSamples, exceptLife>>

---------------------------------------------------------------------------
(* Engagement timeline and anomaly detector (GET                            *)
(* /api/insights/engagement-trend), modelled from the specification:       *)
(* section 4.5.  The model covers the period list, each period's           *)
(* total_minutes and the spike and dip callouts.  A date is its day number *)
(* in 2024 (2024-01-01, a Monday, is day 0).                               *)

MaxSessions == 3

\* first day of January, February, March, April and May 2024
MonthStarts == <<0, 31, 60, 91, 121>>

SessionDays == {0, 8, 35, 62}
SessionMinutes == {0, 40, 100, 200}

\* the start of the calendar-aligned period a day falls in
PeriodStart(kind, day) ==
    IF kind = "weekly" THEN day - (day % 7)
    ELSE MonthStarts[CHOOSE m \in DOMAIN MonthStarts :
            /\ MonthStarts[m] <= day
            /\ \A k \in DOMAIN MonthStarts :
                  MonthStarts[k] <= day => MonthStarts[k] <= MonthStarts[m]]

\* the start of the period one period width later
NextPeriodStart(kind, start) ==
    IF kind = "weekly" THEN start + 7
    ELSE MonthStarts[(CHOOSE m \in DOMAIN MonthStarts : MonthStarts[m] = start) + 1]

\* sessions with non-positive playtime are excluded throughout
CountedSessions(ss) == SelectSeq(ss, LAMBDA x : x.playtime_minutes > 0)

RECURSIVE MinutesIn(_, _, _)
MinutesIn(ss, kind, start) ==
    IF ss = <<>> THEN 0
    ELSE (IF PeriodStart(kind, Head(ss).session_date) = start
          THEN Head(ss).playtime_minutes ELSE 0)
         + MinutesIn(Tail(ss), kind, start)

SessionsIn(ss, kind, start) ==
    Cardinality({i \in DOMAIN ss : PeriodStart(kind, ss[i].session_date) = start})

Period(ss, kind, start) ==
    [period_start |-> start,
     total_minutes |-> MinutesIn(ss, kind, start),
     sessions |-> SessionsIn(ss, kind, start)]

\* only the periods some session falls in
RECURSIVE PeriodsWithSessions(_, _, _, _)
PeriodsWithSessions(ss, kind, start, last) ==
    IF start > last THEN <<>>
    ELSE (IF SessionsIn(ss, kind, start) > 0
          THEN <<Period(ss, kind, start)>> ELSE <<>>)
         \o PeriodsWithSessions(ss, kind, NextPeriodStart(kind, start), last)

\* every period from first to last, empty or not
RECURSIVE PeriodsFrom(_, _, _, _)
PeriodsFrom(ss, kind, start, last) ==
    IF start > last THEN <<>>
    ELSE <<Period(ss, kind, start)>>
         \o PeriodsFrom(ss, kind, NextPeriodStart(kind, start), last)

MinDay(ss) == CHOOSE d \in {ss[i].session_date : i \in DOMAIN ss} :
                 \A i \in DOMAIN ss : d <= ss[i].session_date
MaxDay(ss) == CHOOSE d \in {ss[i].session_date : i \in DOMAIN ss} :
                 \A i \in DOMAIN ss : d >= ss[i].session_date

\* chronological period list from the earliest session to the latest
Timeline(ss, kind) ==
    LET counted == CountedSessions(ss)
    IN  IF counted = <<>> THEN <<>>
        ELSE PeriodsFrom(counted, kind, PeriodStart(kind, MinDay(counted)),
                         PeriodStart(kind, MaxDay(counted)))

SpikeCallout(period, prior) ==
    [type |-> "spike", period_start |-> period.period_start,
     percent_change |-> Frac(period.total_minutes - prior, prior),
     change_minutes |-> period.total_minutes - prior]

DipCallout(period, prior) ==
    [type |-> "dip", period_start |-> period.period_start,
     percent_change |-> Frac(period.total_minutes - prior, prior),
     change_minutes |-> period.total_minutes - prior]

\* percentChange >= +50% and changeMinutes above the 60-minute noise floor
IsSpike(current, prior) ==
    /\ (current - prior) * 100 >= 50 * prior
    /\ current - prior > 60

\* the symmetric negative-direction threshold
IsDip(current, prior) ==
    /\ (current - prior) * 100 <= -50 * prior
    /\ prior - current > 60

\* the callouts of one period against the prior non-empty period's minutes
CalloutsOf(period, prior) ==
    (IF IsSpike(period.total_minutes, prior)
     THEN <<SpikeCallout(period, prior)>> ELSE <<>>)
    \o (IF IsDip(period.total_minutes, prior)
        THEN <<DipCallout(period, prior)>> ELSE <<>>)

\* the minutes to compare the next period with: the last non-empty period's
PriorAfterAdjacent(period, prior) == period.total_minutes

PriorAfter(period, prior) ==
    IF period.total_minutes > 0 THEN period.total_minutes ELSE prior

\* scan of consecutive periods; prior = 0 while no non-empty period was seen
RECURSIVE ScanCallouts(_, _, _)
ScanCallouts(timeline, i, prior) ==
    IF i > Len(timeline) THEN <<>>
    ELSE (IF prior > 0 THEN CalloutsOf(timeline[i], prior) ELSE <<>>)
         \o ScanCallouts(timeline, i + 1, PriorAfter(timeline[i], prior))

EngagementSummary(ss, kind) ==
    LET timeline == Timeline(ss, kind)
    IN  [timeline |-> timeline, callouts |-> ScanCallouts(timeline, 1, 0)]

Session(day, minutes) == [session_date |-> day, playtime_minutes |-> minutes]

NoEngagement == [computed |-> FALSE, summary |-> EngagementSummary(<<>>, "monthly")]

EngIdle ==
    /\ periodKind = "monthly"
    /\ sessions = <<>>
    /\ engagement = NoEngagement

EngInit ==
    /\ periodKind \in {"weekly", "monthly"}
    /\ sessions = <<>>
    /\ engagement = NoEngagement

\* a play session is logged
LogSession ==
    /\ Len(sessions) < MaxSessions
    /\ \E day \in SessionDays, minutes \in SessionMinutes :
          sessions' = Append(sessions, Session(day, minutes))
    /\ engagement' = NoEngagement
    /\ UNCHANGED <<periodKind, exceptEng>>

\* one request for the engagement summary
ComputeEngagement ==
    /\ ~engagement.computed
    /\ engagement' = [computed |-> TRUE,
                      summary |-> EngagementSummary(sessions, periodKind)]
    /\ UNCHANGED <<periodKind, sessions, exceptEng>>

---------------------------------------------------------------------------
(* Colour cache of the engagement chart: getEngagementColor *)

ENGAGEMENT_PALETTE ==
    <<"#60a5fa", "#f472b6", "#facc15", "#34d399",
      "#a855f7", "#f97316", "#38bdf8", "#f87171">>

ENGAGEMENT_OTHER_COLOR == "rgba(148, 163, 184, 0.55)"

K_Hades == <<"H","a","d","e","s">>

ColorKeys == {JsStr(K_Hades), JsStr(toUpperCase(K_Hades)), JsNull}

EmptyMap == [k \in {} |-> ""]

\* Map.prototype.set
MapSet(map, key, value) ==
    [k \in DOMAIN map \cup {key} |-> IF k = key THEN value ELSE map[k]]

ColorInit ==
    /\ engagementColorMap = EmptyMap
    /\ engagementPaletteIndex = 0
    /\ lastColor = ""

\* the key compared as it was given
RawKey(key) == JsToString(key)

\* String(key).toLowerCase()
NormalizeKey(key) == toLowerCase(JsToString(key))

\* getEngagementColor(key)
getEngagementColor(key) ==
    IF ~JsTruthy(key)
    THEN /\ lastColor' = ENGAGEMENT_OTHER_COLOR
         /\ UNCHANGED <<engagementColorMap, engagementPaletteIndex>>
    ELSE LET normalized == NormalizeKey(key)
             paletteIndex == engagementPaletteIndex % Len(ENGAGEMENT_PALETTE)
         IN  IF normalized \notin DOMAIN engagementColorMap
             THEN /\ engagementColorMap' =
                        MapSet(engagementColorMap, normalized,
                               ENGAGEMENT_PALETTE[paletteIndex + 1])
                  /\ engagementPaletteIndex' = engagementPaletteIndex + 1
                  /\ lastColor' = ENGAGEMENT_PALETTE[paletteIndex + 1]
             ELSE /\ lastColor' = engagementColorMap[normalized]
                  /\ UNCHANGED <<engagementColorMap, engagementPaletteIndex>>

\* a call while the summaries are computed
GetEngagementColor ==
    \E key \in ColorKeys :
        /\ getEngagementColor(key)
        /\ UNCHANGED exceptColor

MaxColorKeys == 9
MaxReordered == 3

\* the n-th title: "ta", "tb", ...
TitleKey(n) == <<"t", LowerChars[n]>>

\* titles as the chart passes them, in lower and in upper case
SeenVariants(n) == {JsStr(TitleKey(n)), JsStr(toUpperCase(TitleKey(n)))}

FalsyKeys == {JsNull, JsUndefined, JsStr(<<>>), JsNum(0)}

\* the titles that have a colour
SeenTitles ==
    {n \in 1..MaxColorKeys : toLowerCase(TitleKey(n)) \in DOMAIN engagementColorMap}

\* the keys of the next call: a missing key, a title seen before, or a new
\* title: the first of the titles not seen yet or, among the first
\* MaxReordered arrivals, the last of them
NextKeys ==
    LET unseen == (1..MaxColorKeys) \ SeenTitles
        fresh == {n \in unseen : \A m \in unseen : n <= m}
                     \cup {n \in unseen : /\ Cardinality(SeenTitles) < MaxReordered
                                           /\ \A m \in unseen : n >= m}
    IN  FalsyKeys \cup UNION {SeenVariants(n) : n \in SeenTitles \cup fresh}

ColorCallIdle == lastKey = JsNull

\* a call from the engagement chart, with the key recorded
CallGetEngagementColor ==
    \E key \in NextKeys :
        /\ getEngagementColor(key)
        /\ lastKey' = key
        /\ UNCHANGED exceptColorCall

---------------------------------------------------------------------------
(* Lifecycle summary and the aggregation as a whole, modelled from the      *)
(* specification: sections 4.4 and 6.  The sentiment summary is not         *)
(* modelled.                                                                *)

MaxAggGames == 2
MaxClockTicks == 1

\* the day the model starts on: 2024-03-11
FirstToday == 70

StageFrom(game, stage) ==
    IF stage = "start_to_finish" THEN game.start_date ELSE game.purchase_date

StageTo(game, stage) ==
    IF stage = "purchase_to_start" THEN game.start_date ELSE game.finish_date

\* out-of-order dates swapped instead of excluded
RECURSIVE StageSamplesCorrected(_, _)
StageSamplesCorrected(games, stage) ==
    IF games = <<>> THEN <<>>
    ELSE LET g == Head(games)
             from == StageFrom(g, stage)
             to == StageTo(g, stage)
         IN  (IF from # NoDate /\ to # NoDate
              THEN <<IF to >= from THEN to - from ELSE from - to>> ELSE <<>>)
             \o StageSamplesCorrected(Tail(games), stage)

\* a game contributes when both dates are present and in order
RECURSIVE StageSamples(_, _)
StageSamples(games, stage) ==
    IF games = <<>> THEN <<>>
    ELSE LET g == Head(games)
             from == StageFrom(g, stage)
             to == StageTo(g, stage)
         IN  (IF from # NoDate /\ to # NoDate /\ to >= from
              THEN <<to - from>> ELSE <<>>)
             \o StageSamples(Tail(games), stage)

Stage(games, stage) == [statistics |-> StageStatistics(StageSamples(games, stage))]

\* descending by days waiting, stable
RECURSIVE InsertByWaiting(_, _)
InsertByWaiting(sorted, e) ==
    IF sorted = <<>> THEN <<e>>
    ELSE IF e.days_waiting > Head(sorted).days_waiting
         THEN <<e>> \o sorted
         ELSE <<Head(sorted)>> \o InsertByWaiting(Tail(sorted), e)

\* owned, purchased and not yet started: daysWaiting = today - purchaseDate
RECURSIVE AgingBacklog(_, _)
AgingBacklog(games, day) ==
    IF games = <<>> THEN <<>>
    ELSE LET g == games[Len(games)]
             rest == AgingBacklog(SubSeq(games, 1, Len(games) - 1), day)
         IN  IF /\ BucketOfStatus(g.status) = S_backlog
                /\ g.purchase_date # NoDate
                /\ g.start_date = NoDate
             THEN InsertByWaiting(rest,
                      [id |-> g.id, days_waiting |-> day - g.purchase_date,
                       purchase_date |-> g.purchase_date])
             ELSE rest

LifecycleSummary(games, day) ==
    [purchase_to_start |-> Stage(games, "purchase_to_start"),
     start_to_finish |-> Stage(games, "start_to_finish"),
     purchase_to_finish |-> Stage(games, "purchase_to_finish"),
     aging_backlog |-> AgingBacklog(games, day)]

LeftoverAccumulator(leftover) == leftover

\* the accumulator a request starts from: entries are ephemeral, rebuilt on
\* every request, whatever an earlier request left behind
RequestAccumulator(leftover) == EmptyAccumulator

\* the summaries of one request
Aggregation(acc, games, ss, kind, day) ==
    [genres |-> GenreSummaryOf(acc),
     lifecycle |-> LifecycleSummary(games, day),
     engagement |-> EngagementSummary(ss, kind)]

NoRun == [done |-> FALSE, day |-> 0, palette |-> 0,
          out |-> Aggregation(EmptyAccumulator, <<>>, <<>>, "monthly", 0)]

RunOf(acc) ==
    [done |-> TRUE, day |-> today, palette |-> engagementPaletteIndex,
     out |-> Aggregation(acc, genreGames, sessions, periodKind, today)]

AggGameChoices ==
    {DatedGame(0, JsStr(S_backlog), 1500, <<G_RPG>>, 10, NoDate, NoDate),
     DatedGame(0, JsStr(S_backlog), 1450, <<G_Action, G_RPG>>, 40, NoDate, NoDate),
     DatedGame(0, JsStr(S_story_clear), 1600, <<G_RPG, G_Spaces>>, 10, 12, 40)}

AggSessionCollections ==
    {<<>>, <<Session(0, 100)>>, <<Session(0, 100), Session(62, 200)>>}

AggIdle ==
    /\ today = FirstToday
    /\ accumulator = EmptyAccumulator
    /\ aggFirst = NoRun
    /\ aggSecond = NoRun

\* a snapshot of games and sessions, fetched once and then unchanged
SnapshotInit ==
    /\ \E n \in 0..MaxAggGames :
          \E choice \in [1..n -> AggGameChoices] :
              genreGames = [i \in 1..n |-> [choice[i] EXCEPT !.id = i]]
    /\ genreOut = NoGenreOut
    /\ periodKind = "monthly"
    /\ sessions \in AggSessionCollections
    /\ engagement = NoEngagement

\* midnight passes
ClockTick ==
    /\ today < FirstToday + MaxClockTicks
    /\ today' = today + 1
    /\ UNCHANGED <<accumulator, aggFirst, aggSecond, genreVars, engVars, exceptAgg>>

AggregateFirst ==
    /\ ~aggFirst.done
    /\ LET acc == AccumulateFrom(genreGames, 1, RequestAccumulator(accumulator))
       IN  /\ aggFirst' = RunOf(acc)
           /\ accumulator' = acc
    /\ UNCHANGED <<today, aggSecond, genreVars, engVars, exceptAgg>>

AggregateSecond ==
    /\ aggFirst.done
    /\ ~aggSecond.done
    /\ LET acc == AccumulateFrom(genreGames, 1, RequestAccumulator(accumulator))
       IN  /\ aggSecond' = RunOf(acc)
           /\ accumulator' = acc
    /\ UNCHANGED <<today, aggFirst, genreVars, engVars, exceptAgg>>

---------------------------------------------------------------------------
(* Numbers and the display formatters.  A finite number is kept in         *)
(* quarters (value = quarters / 4), so every value and every rounding tie  *)
(* is exact in binary floating point; formatted numbers are in tenths.     *)

MaxQuarters == 6

\* 9.75, 10 and 10.5: either side of where formatDays drops the decimal
LargeQuarters == {39, 40, 42}

Num(q) == [type |-> "number", quarters |-> q]
NaN == [type |-> "NaN", quarters |-> 0]
PosInfinity == [type |-> "Infinity", quarters |-> 0]
NegInfinity == [type |-> "-Infinity", quarters |-> 0]
NullMetric == [type |-> "null", quarters |-> 0]
UndefinedMetric == [type |-> "undefined", quarters |-> 0]
\* the string "7", as a JSON body may carry a number
NumericString == [type |-> "string", quarters |-> 28]

NonFiniteMetrics ==
    {NaN, PosInfinity, NegInfinity, NullMetric, UndefinedMetric, NumericString}

FiniteMetrics == {Num(q) : q \in (-MaxQuarters..MaxQuarters) \cup LargeQuarters}

MetricValues == FiniteMetrics \cup NonFiniteMetrics

\* the global isFinite, which converts its argument to a number first
GlobalIsFinite(v) == v.type \in {"number", "null", "string"}

\* Number.isFinite
IsFinite(v) == v.type = "number"

Abs(n) == IF n < 0 THEN -n ELSE n

Sign(n) == IF n < 0 THEN -1 ELSE 1

\* Math.round, in whole units: ties go up
MathRound(q) == (q + 2) \div 4

\* Number(value.toFixed(digits)) in tenths, digits 0 or 1: ties go away
\* from zero
ToFixed(q, digits) ==
    IF digits = 0
    THEN Sign(q) * ((Abs(q) + 2) \div 4) * 10
    ELSE Sign(q) * ((Abs(q) * 5 + 1) \div 2)

\* the placeholder texts: U+2014 alone, and after "Avg ELO "
DASH == "U+2014"
AVG_ELO_DASH == "Avg ELO U+2014"

Placeholder(text) ==
    [kind |-> "placeholder", prefix |-> text, tenths |-> 0, suffix |-> "",
     upper |-> 0]

Numeric(prefix, tenths, suffix) ==
    [kind |-> "numeric", prefix |-> prefix, tenths |-> tenths,
     suffix |-> suffix, upper |-> 0]

NumericRange(lower, upper, suffix) ==
    [kind |-> "numeric", prefix |-> "", tenths |-> lower, suffix |-> suffix,
     upper |-> upper]

\* value.toFixed is not a function
TypeError ==
    [kind |-> "TypeError", prefix |-> "", tenths |-> 0, suffix |-> "",
     upper |-> 0]

\* formatDays(value, { decimals }); decimals is <<>> for null, else <<d>>
formatDays(value, decimals) ==
    IF ~IsFinite(value) THEN Placeholder(DASH)
    ELSE IF value.type # "number" THEN TypeError
    ELSE LET resolvedDecimals ==
                 IF decimals = <<>>
                 THEN (IF Abs(value.quarters) < 40 THEN 1 ELSE 0)
                 ELSE decimals[1]
             rounded == ToFixed(value.quarters, resolvedDecimals)
             suffix == IF Abs(rounded) = 10 THEN " day" ELSE " days"
         IN  Numeric("", rounded, suffix)

formatDaysRange(lower, upper) ==
    IF ~IsFinite(lower) \/ ~IsFinite(upper) THEN Placeholder(DASH)
    ELSE IF lower.type # "number" \/ upper.type # "number" THEN TypeError
    ELSE NumericRange(ToFixed(lower.quarters, 0), ToFixed(upper.quarters, 0),
                      " days")

\* Intl.NumberFormat style "percent": value * 100 = 25 * quarters, a whole
\* number whatever the fraction digits
formatPercent(value, fractionDigits) ==
    IF ~IsFinite(value) THEN Placeholder(DASH)
    ELSE Numeric("", 250 * value.quarters, "%")

formatAverageElo(value) ==
    IF ~IsFinite(value) THEN Placeholder(AVG_ELO_DASH)
    ELSE Numeric("Avg ELO ", 10 * MathRound(value.quarters), "")

formatScorePoints(value) ==
    IF ~IsFinite(value) THEN Placeholder(DASH)
    ELSE Numeric("", 10 * MathRound(value.quarters), " pts")

formatSentimentValue(value) ==
    IF ~IsFinite(value) THEN Placeholder(DASH)
    ELSE Numeric("", 10 * MathRound(value.quarters), " pts")

FormatCall(name, first, second, option) ==
    [name |-> name, first |-> first, second |-> second, option |-> option]

NoFormatCall == FormatCall("none", NaN, NaN, <<>>)

FmtIdle ==
    /\ fmtCall = NoFormatCall
    /\ fmtOut = Placeholder("")

CallFormatDays ==
    \E value \in MetricValues, decimals \in {<<>>, <<0>>} :
        /\ fmtCall' = FormatCall("formatDays", value, NaN, decimals)
        /\ fmtOut' = formatDays(value, decimals)
        /\ UNCHANGED exceptFmt

CallFormatDaysRange ==
    \E lower \in MetricValues, upper \in MetricValues :
        /\ fmtCall' = FormatCall("formatDaysRange", lower, upper, <<>>)
        /\ fmtOut' = formatDaysRange(lower, upper)
        /\ UNCHANGED exceptFmt

CallFormatPercent ==
    \E value \in MetricValues, fractionDigits \in {0, 1} :
        /\ fmtCall' = FormatCall("formatPercent", value, NaN, <<fractionDigits>>)
        /\ fmtOut' = formatPercent(value, fractionDigits)
        /\ UNCHANGED exceptFmt

CallFormatAverageElo ==
    \E value \in MetricValues :
        /\ fmtCall' = FormatCall("formatAverageElo", value, NaN, <<>>)
        /\ fmtOut' = formatAverageElo(value)
        /\ UNCHANGED exceptFmt

CallFormatScorePoints ==
    \E value \in MetricValues :
        /\ fmtCall' = FormatCall("formatScorePoints", value, NaN, <<>>)
        /\ fmtOut' = formatScorePoints(value)
        /\ UNCHANGED exceptFmt

CallFormatSentimentValue ==
    \E value \in MetricValues :
        /\ fmtCall' = FormatCall("formatSentimentValue", value, NaN, <<>>)
        /\ fmtOut' = formatSentimentValue(value)
        /\ UNCHANGED exceptFmt

---------------------------------------------------------------------------
(* The lifecycle section of the insights page: the summary is computed by  *)
(* the server (modelled from the specification, section 4.4) and rendered  *)
(* by renderLifecycleSummary.                                              *)

MaxStageGames == 2

\* day numbers count from 2024-01-01; today is FirstToday
StageGameChoices ==
    {DatedGame(0, JsStr(S_backlog), 1500, <<>>, 0, NoDate, NoDate),
     DatedGame(0, JsStr(S_backlog), 1500, <<>>, 75, NoDate, NoDate),
     DatedGame(0, JsStr(S_backlog), 1500, <<>>, 40, NoDate, NoDate),
     DatedGame(0, JsStr(S_backlog), 1500, <<>>, NoDate, NoDate, NoDate),
     DatedGame(0, JsStr(S_wishlist), 1500, <<>>, 0, NoDate, NoDate),
     DatedGame(0, JsStr(S_playing), 1500, <<>>, 0, 10, NoDate),
     DatedGame(0, JsStr(S_story_clear), 1500, <<>>, 0, 10, 41),
     DatedGame(0, JsStr(S_story_clear), 1500, <<>>, 75, 10, 41),
     DatedGame(0, JsStr(S_story_clear), 1500, <<>>, NoDate, 10, 5)}

NoLifecycleSummary == [fetched |-> FALSE, summary |-> LifecycleSummary(<<>>, 0)]

NoLifecycleView ==
    [rendered |-> FALSE, avgToStart |-> "", avgToFinish |-> "",
     avgPurchaseToFinish |-> "", durations |-> "", agingEmpty |-> FALSE,
     agingRows |-> <<>>]

StageIdle ==
    /\ lifeGames = <<>>
    /\ lifecycleSummary = NoLifecycleSummary
    /\ lifecycleView = NoLifecycleView

\* a game is added to the library; the page is stale until loaded again
StageAddGame ==
    /\ Len(lifeGames) < MaxStageGames
    /\ \E g \in StageGameChoices :
          lifeGames' = Append(lifeGames, [g EXCEPT !.id = Len(lifeGames) + 1])
    /\ lifecycleSummary' = NoLifecycleSummary
    /\ lifecycleView' = NoLifecycleView
    /\ UNCHANGED exceptStage

\* the page is loaded: GET /api/insights/lifecycle
FetchLifecycle ==
    /\ ~lifecycleSummary.fetched
    /\ lifecycleSummary' =
           [fetched |-> TRUE, summary |-> LifecycleSummary(lifeGames, today)]
    /\ UNCHANGED <<lifeGames, lifecycleView, exceptStage>>

\* the value shown without clamping
UnclampedWait(days) == days

\* Number.isFinite(entry.days_waiting) ? Math.max(entry.days_waiting, 0) : ...
ClampedWait(days) == IF days > 0 THEN days ELSE 0

AgingRow(entry) ==
    [id |-> entry.id,
     days |-> formatDays(Num(4 * ClampedWait(entry.days_waiting)), <<0>>),
     purchase_date |-> entry.purchase_date]

\* a metric card: the formatted average when the stage has samples, else
\* the placeholder updateMetricValue falls back to
MetricCard(stats) == IF stats.count > 0 THEN "value" ELSE "placeholder"

LifecycleView(summary) ==
    [rendered |-> TRUE,
     avgToStart |-> MetricCard(summary.purchase_to_start.statistics),
     avgToFinish |-> MetricCard(summary.start_to_finish.statistics),
     avgPurchaseToFinish |-> MetricCard(summary.purchase_to_finish.statistics),
     durations |->
         IF \E stage \in {summary.purchase_to_start, summary.start_to_finish,
                          summary.purchase_to_finish} :
                stage.statistics.count > 0
         THEN "table" ELSE "empty",
     agingEmpty |-> Len(summary.aging_backlog) = 0,
     agingRows |-> [i \in DOMAIN summary.aging_backlog |->
                        AgingRow(summary.aging_backlog[i])]]

\* renderLifecycleSummary(root, summary)
RenderLifecycleSummary ==
    /\ lifecycleSummary.fetched
    /\ lifecycleView' = LifecycleView(lifecycleSummary.summary)
    /\ UNCHANGED <<lifeGames, lifecycleSummary, exceptStage>>

---------------------------------------------------------------------------
(* The session form's submit handler: resolving a session to a game *)

MaxSessionGames == 2

K_Celeste == <<"C","e","l","e","s","t","e">>
K_Doom == <<"D","o","o","m">>

\* String.prototype.trim, for titles padded with spaces
RECURSIVE TrimStart(_)
TrimStart(s) ==
    IF s # <<>> /\ Head(s) = " " THEN TrimStart(Tail(s)) ELSE s

RECURSIVE TrimEnd(_)
TrimEnd(s) ==
    IF s # <<>> /\ s[Len(s)] = " " THEN TrimEnd(SubSeq(s, 1, Len(s) - 1)) ELSE s

trim(s) == TrimEnd(TrimStart(s))

GameTitles == {K_Hades, toUpperCase(K_Hades), K_Celeste}

TypedTitles ==
    {toLowerCase(K_Hades), <<" ">> \o K_Hades \o <<" ">>, K_Celeste, K_Doom,
     <<>>}

\* no game id chosen: the hidden input is empty
NoGameId == 0

\* an id left in the hidden input by a game that is no longer cached
StaleGameId == 9

GameIdInputs == {NoGameId, 1, 2, StaleGameId}

TitledGame(id, title) == [id |-> id, title |-> title]

NoGame == TitledGame(NoGameId, <<>>)

\* the last of the elements at the matching positions
FindLast(list, matching) ==
    IF matching # {}
    THEN list[CHOOSE i \in matching : \A j \in matching : j <= i]
    ELSE NoGame

\* Array.prototype.find, given the positions the predicate holds at: the
\* first such element, or undefined (NoGame)
Find(list, matching) ==
    IF matching # {}
    THEN list[CHOOSE i \in matching : \A j \in matching : i <= j]
    ELSE NoGame

Payload(handler, title, id) ==
    [handler |-> handler, game_title |-> title, game_id |-> id]

NoPayload == Payload("none", <<>>, NoGameId)

SessIdle ==
    /\ sessGames = <<>>
    /\ sessForm = [title |-> <<>>, id |-> NoGameId]
    /\ sessPayload = NoPayload

\* the cached games change
SessAddGame ==
    /\ Len(sessGames) < MaxSessionGames
    /\ \E title \in GameTitles :
          sessGames' = Append(sessGames, TitledGame(Len(sessGames) + 1, title))
    /\ UNCHANGED <<sessForm, sessPayload, exceptSess>>

\* the user types a title, with or without picking a game from the options
FillSessionForm ==
    /\ \E title \in TypedTitles, id \in GameIdInputs :
          sessForm' = [title |-> title, id |-> id]
    /\ UNCHANGED <<sessGames, sessPayload, exceptSess>>

\* sessionForm submit handler (with the hidden session-game-id input)
SubmitSession ==
    LET normalizedTitle == toLowerCase(trim(sessForm.title))
        byTitle == Find(sessGames,
                        {i \in DOMAIN sessGames :
                            toLowerCase(sessGames[i].title) = normalizedTitle})
        byId == Find(sessGames,
                     {i \in DOMAIN sessGames : sessGames[i].id = sessForm.id})
        matchedGame ==
            IF sessForm.id # NoGameId /\ byId # NoGame THEN byId ELSE byTitle
    IN  /\ sessPayload' =
              IF sessForm.id # NoGameId
              THEN Payload("input",
                           IF matchedGame # NoGame THEN matchedGame.title
                           ELSE sessForm.title,
                           sessForm.id)
              ELSE IF matchedGame # NoGame
                   THEN Payload("input", matchedGame.title, matchedGame.id)
                   ELSE Payload("input", sessForm.title, NoGameId)
        /\ sessForm' = [title |-> <<>>, id |-> NoGameId]
        /\ UNCHANGED <<sessGames, exceptSess>>

\* sessionForm submit handler (title matched against the datalist options,
\* one option per cached game)
SubmitSessionDatalist ==
    LET option ==
            Find(sessGames,
                 {i \in DOMAIN sessGames :
                     toLowerCase(sessGames[i].title) = toLowerCase(sessForm.title)})
    IN  /\ sessPayload' = Payload("datalist", sessForm.title, option.id)
        /\ sessForm' = [title |-> <<>>, id |-> NoGameId]
        /\ UNCHANGED <<sessGames, exceptSess>>

---------------------------------------------------------------------------
(* The genre section of the insights page: renderGenreInsights with its    *)
(* metric and bucket toggles.  Bucket and genre names are plain strings;   *)
(* an object's entries are kept as a sequence in key order.                *)

MaxViewGenres == 2

Metrics(weight, count, share, averageElo) ==
    [weight |-> weight, count |-> count, share |-> share,
     average_elo |-> averageElo]

BucketEntry(bucket, metrics) == [bucket |-> bucket, metrics |-> metrics]

GenreEntry(genre, total, buckets, dominant) ==
    [genre |-> genre, total |-> total, buckets |-> buckets,
     dominant |-> dominant]

\* bucket_order as the registry declares it
ViewBucketOrder == <<"backlog", "playing", "wishlist">>

M_One == Metrics(1, 1, 1, Num(6000))
M_Two == Metrics(2, 2, 2, Num(5800))
M_Unrated == Metrics(1, 1, 1, NullMetric)
M_None == Metrics(0, 0, 0, NullMetric)

\* sample entries: ties between declared buckets listed against the
\* declaration order, and ties between buckets the order does not name
ViewEntries ==
    {GenreEntry("RPG", Metrics(3, 3, 3, Num(6000)),
                <<BucketEntry("wishlist", M_One), BucketEntry("playing", M_One),
                  BucketEntry("backlog", M_One)>>, "balanced"),
     GenreEntry("Action", Metrics(3, 3, 2, Num(5800)),
                <<BucketEntry("lent", M_One), BucketEntry("playing", M_Two),
                  BucketEntry("backlog", M_None)>>, "playing"),
     GenreEntry("Puzzle", Metrics(2, 2, 1, NullMetric),
                <<BucketEntry("lent", M_Unrated), BucketEntry("archived", M_Unrated)>>,
                "balanced"),
     GenreEntry("Indie", Metrics(2, 2, 1, NullMetric),
                <<BucketEntry("archived", M_Unrated), BucketEntry("lent", M_Unrated)>>,
                "balanced")}

GenreBodyOf(genres, order) ==
    [present |-> TRUE, genres |-> genres, bucket_order |-> order]

\* a body without the fields: {}
MissingGenreBody == [present |-> FALSE, genres |-> <<>>, bucket_order |-> <<>>]

GenreBodies ==
    {MissingGenreBody}
    \cup {GenreBodyOf(genres, order) :
            genres \in UNION {[1..n -> ViewEntries] : n \in 0..MaxViewGenres},
            order \in {ViewBucketOrder}}

NoGenreBody == [fetched |-> FALSE, body |-> MissingGenreBody]

\* getBucketOrderIndex(bucket, order)
getBucketOrderIndex(bucket, order) ==
    IF \E i \in DOMAIN order : order[i] = bucket
    THEN (CHOOSE i \in DOMAIN order :
              order[i] = bucket /\ \A j \in DOMAIN order : order[j] = bucket => i <= j) - 1
    ELSE Len(order)

\* the comparator of buildGenreBreakdown: negative when a goes before b
CompareContributions(a, b, order) ==
    IF b.metrics.weight # a.metrics.weight
    THEN b.metrics.weight - a.metrics.weight
    ELSE getBucketOrderIndex(a.bucket, order) - getBucketOrderIndex(b.bucket, order)

\* Array.prototype.sort is stable: an element goes after everything it
\* does not strictly precede
RECURSIVE InsertContribution(_, _, _)
InsertContribution(sorted, e, order) ==
    IF sorted = <<>> THEN <<e>>
    ELSE IF CompareContributions(e, Head(sorted), order) < 0
         THEN <<e>> \o sorted
         ELSE <<Head(sorted)>> \o InsertContribution(Tail(sorted), e, order)

RECURSIVE SortContributions(_, _)
SortContributions(list, order) ==
    IF list = <<>> THEN <<>>
    ELSE InsertContribution(
             SortContributions(SubSeq(list, 1, Len(list) - 1), order),
             list[Len(list)], order)

RECURSIVE SelectSeqBy(_, _)
SelectSeqBy(list, keep) ==
    IF list = <<>> THEN <<>>
    ELSE (IF Head(list) \in keep THEN <<Head(list)>> ELSE <<>>)
         \o SelectSeqBy(Tail(list), keep)

Take(list, n) == SubSeq(list, 1, IF Len(list) < n THEN Len(list) ELSE n)

NoBucket == ""

\* buildGenreBreakdown(entry, { order, highlight })
buildGenreBreakdown(entry, order, highlight) ==
    LET contributions ==
            SortContributions(
                SelectSeqBy(entry.buckets,
                            {e \in {entry.buckets[i] : i \in DOMAIN entry.buckets} :
                                e.metrics.weight > 0}),
                order)
        highlightBucket ==
            IF highlight # NoBucket /\ highlight # "balanced"
            THEN highlight ELSE NoBucket
        found == {e \in {contributions[i] : i \in DOMAIN contributions} :
                     e.bucket = highlightBucket}
        highlighted == highlightBucket # NoBucket /\ found # {}
        highlightEntry == CHOOSE e \in found : TRUE
        topContributions ==
            IF highlighted
            THEN <<highlightEntry>>
                 \o SelectSeqBy(Take(contributions, 3),
                                {e \in {contributions[i] : i \in DOMAIN contributions} :
                                    e.bucket # highlightBucket})
            ELSE Take(contributions, 3)
        sortedTop == Take(SortContributions(topContributions, order), 3)
        finalContributions ==
            IF highlighted /\ \A i \in DOMAIN sortedTop :
                                  sortedTop[i].bucket # highlightBucket
            THEN [sortedTop EXCEPT ![Len(sortedTop)] = highlightEntry]
            ELSE sortedTop
    IN  [pieces |-> [i \in DOMAIN finalContributions |->
                        [bucket |-> finalContributions[i].bucket,
                         weight |-> finalContributions[i].metrics.weight,
                         share |-> formatPercent(
                                       Num(finalContributions[i].metrics.share), 1),
                         average |-> formatAverageElo(
                                       finalContributions[i].metrics.average_elo),
                         highlighted |->
                             finalContributions[i].bucket = highlightBucket]],
         more |-> Len(contributions) - Len(finalContributions)]

\* the three ranking metrics: key, extractor and formatter
MetricKeys == {"share", "count", "average_elo"}

\* entry.buckets[bucket], or undefined (absent)
BucketSource(entry, bucket) ==
    LET at == {i \in DOMAIN entry.buckets : entry.buckets[i].bucket = bucket}
    IN  IF at = {} THEN [present |-> FALSE, metrics |-> M_None]
        ELSE [present |-> TRUE,
              metrics |-> entry.buckets[CHOOSE i \in at : TRUE].metrics]

\* activeMetric.extractor(source)
Extract(metric, source) ==
    CASE metric = "share" ->
            IF source.present THEN Num(source.metrics.share) ELSE Num(0)
      [] metric = "count" ->
            IF source.present THEN Num(4 * source.metrics.count) ELSE Num(0)
      [] OTHER ->
            IF source.present THEN source.metrics.average_elo ELSE NullMetric

\* activeMetric.formatter(value)
FormatMetric(metric, value) ==
    CASE metric = "share" -> formatPercent(value, 1)
      [] metric = "count" ->
            Numeric("", 10 * MathRound(value.quarters),
                    IF MathRound(value.quarters) = 1 THEN " game" ELSE " games")
      [] OTHER ->
            IF IsFinite(value)
            THEN Numeric("", 10 * MathRound(value.quarters), " ELO")
            ELSE Placeholder("No rating data")

Decorated(entry, metric, bucket) ==
    LET source == IF bucket = "total"
                  THEN [present |-> TRUE, metrics |-> entry.total]
                  ELSE BucketSource(entry, bucket)
    IN  [entry |-> entry, source |-> source, value |-> Extract(metric, source)]

KeepDecorated(d, metric) ==
    /\ d.source.present
    /\ CASE metric = "average_elo" -> IsFinite(d.value)
         [] metric = "count" -> IsFinite(d.value) /\ d.value.quarters > 0
         [] OTHER -> IsFinite(d.value) /\ d.source.metrics.weight > 0

\* filtered.sort((a, b) => bValue - aValue), stable
RECURSIVE InsertByValue(_, _)
InsertByValue(sorted, d) ==
    IF sorted = <<>> THEN <<d>>
    ELSE IF d.value.quarters > Head(sorted).value.quarters
         THEN <<d>> \o sorted
         ELSE <<Head(sorted)>> \o InsertByValue(Tail(sorted), d)

RECURSIVE SortByValue(_)
SortByValue(list) ==
    IF list = <<>> THEN <<>>
    ELSE InsertByValue(SortByValue(SubSeq(list, 1, Len(list) - 1)), list[Len(list)])

Reverse(list) == [i \in DOMAIN list |-> list[Len(list) + 1 - i]]

\* Array.from(new Set(list.filter(Boolean)))
RECURSIVE Unique(_)
Unique(list) ==
    IF list = <<>> THEN <<>>
    ELSE LET rest == Unique(SubSeq(list, 1, Len(list) - 1))
             last == list[Len(list)]
         IN  IF last = NoBucket \/ \E i \in DOMAIN rest : rest[i] = last
             THEN rest ELSE Append(rest, last)

\* renderList: one item per decorated entry
ListItems(entries, metric, bucket, order) ==
    [i \in DOMAIN entries |->
        LET entry == entries[i].entry
            highlight == IF bucket = "total"
                         THEN (IF entry.dominant = "balanced" THEN NoBucket
                               ELSE entry.dominant)
                         ELSE bucket
        IN  [genre |-> entry.genre,
             value |-> FormatMetric(metric, entries[i].value),
             breakdown |-> buildGenreBreakdown(entry, order, highlight)]]

\* the same, ranking the fetched array itself instead of a copy
updateListsInPlace(genres, metric, bucket, order) ==
    LET decorated == [i \in DOMAIN genres |-> Decorated(genres[i], metric, bucket)]
        filtered ==
            SortByValue(SelectSeqBy(decorated,
                {d \in {decorated[i] : i \in DOMAIN decorated} :
                    KeepDecorated(d, metric)}))
        ranked == SortByValue(decorated)
    IN  [genres |-> [i \in DOMAIN ranked |-> ranked[i].entry],
         empty |-> filtered = <<>>,
         top |-> ListItems(Take(filtered, 5), metric, bucket, order),
         bottom |-> ListItems(
             Reverse(SubSeq(filtered,
                            IF Len(filtered) > 5 THEN Len(filtered) - 4 ELSE 1,
                            Len(filtered))),
             metric, bucket, order)]

\* updateLists(): what the lists show, and the fetched genres array as the
\* call leaves it (map and filter build new arrays; only those are sorted)
updateLists(genres, metric, bucket, order) ==
    LET decorated == [i \in DOMAIN genres |-> Decorated(genres[i], metric, bucket)]
        filtered ==
            SortByValue(SelectSeqBy(decorated,
                {d \in {decorated[i] : i \in DOMAIN decorated} :
                    KeepDecorated(d, metric)}))
    IN  [genres |-> genres,
         empty |-> filtered = <<>>,
         top |-> ListItems(Take(filtered, 5), metric, bucket, order),
         bottom |-> ListItems(
             Reverse(SubSeq(filtered,
                            IF Len(filtered) > 5 THEN Len(filtered) - 4 ELSE 1,
                            Len(filtered))),
             metric, bucket, order)]

GenreViewOf(state, metric, bucket, lists) ==
    [state |-> state, activeMetric |-> metric, activeBucket |-> bucket,
     listsEmpty |-> lists.empty, top |-> lists.top, bottom |-> lists.bottom]

NoLists == [genres |-> <<>>, empty |-> TRUE, top |-> <<>>, bottom |-> <<>>]

\* the chart canvas as the page template ships it
NoGenreView == GenreViewOf("initial", "share", "total", NoLists)

\* the "No genre insights are available yet" paragraph
EmptyGenreView == GenreViewOf("empty", "share", "total", NoLists)

GenreViewIdle ==
    /\ genreBody = NoGenreBody
    /\ genreView = NoGenreView

\* Array.isArray(summary?.genres) ? summary.genres : []
GenresOf(body) == IF body.present THEN body.genres ELSE <<>>

\* availableBuckets
AvailableBuckets(body) == Unique(IF body.present THEN body.bucket_order ELSE <<>>)

\* the page receives the body of GET /api/insights/genres
FetchGenreBodyFrom(bodies) ==
    /\ ~genreBody.fetched
    /\ \E body \in bodies : genreBody' = [fetched |-> TRUE, body |-> body]
    /\ UNCHANGED <<genreView, exceptGview>>

FetchGenreBody == FetchGenreBodyFrom(GenreBodies)

\* renderGenreInsights(root, summary)
RenderGenreInsights ==
    /\ genreBody.fetched
    /\ IF GenresOf(genreBody.body) = <<>>
       THEN /\ genreView' = EmptyGenreView
            /\ UNCHANGED genreBody
       ELSE LET lists == updateLists(GenresOf(genreBody.body), "share", "total",
                                     AvailableBuckets(genreBody.body))
            IN  /\ genreView' = GenreViewOf("content", "share", "total", lists)
                /\ genreBody' = [genreBody EXCEPT !.body.genres = lists.genres]
    /\ UNCHANGED exceptGview

\* click on a "Rank by" button
ToggleMetric ==
    /\ genreView.state = "content"
    /\ \E metric \in MetricKeys \ {genreView.activeMetric} :
          LET lists == updateLists(GenresOf(genreBody.body), metric,
                                   genreView.activeBucket,
                                   AvailableBuckets(genreBody.body))
          IN  /\ genreView' = GenreViewOf("content", metric,
                                          genreView.activeBucket, lists)
              /\ genreBody' = [genreBody EXCEPT !.body.genres = lists.genres]
    /\ UNCHANGED exceptGview

\* click on a "Focus on" button
ToggleBucket ==
    /\ genreView.state = "content"
    /\ \E bucket \in ({"total"} \cup
                      {AvailableBuckets(genreBody.body)[i] :
                          i \in DOMAIN AvailableBuckets(genreBody.body)})
                     \ {genreView.activeBucket} :
          LET lists == updateLists(GenresOf(genreBody.body),
                                   genreView.activeMetric, bucket,
                                   AvailableBuckets(genreBody.body))
          IN  /\ genreView' = GenreViewOf("content", genreView.activeMetric,
                                          bucket, lists)
              /\ genreBody' = [genreBody EXCEPT !.body.genres = lists.genres]
    /\ UNCHANGED exceptGview

---------------------------------------------------------------------------
(* The genre-sentiment section: renderGenreSentimentComparison.  Scores    *)
(* are in quarters of a point.                                             *)

MaxSentimentGenres == 2

StatusSentiment(bucket, playtime, score) ==
    [bucket |-> bucket, total_playtime_minutes |-> playtime,
     weighted_sentiment |-> score]

SentimentEntry(genre, interest, enjoyment, playtime, statuses) ==
    [genre |-> genre, interest_score |-> interest,
     weighted_sentiment |-> enjoyment, total_playtime_minutes |-> playtime,
     statuses |-> statuses]

\* the threshold of a notable gap: 8 points
GapThreshold == 32

\* sample entries: 68 against 60 (a gap of exactly 8, twice, with other
\* fields differing), 60 against 68, 67.75 against 60, 80.5 against 60,
\* and entries with a score missing
SentimentEntries ==
    {SentimentEntry("RPG", Num(272), Num(240), 600,
         <<StatusSentiment("wishlist", 0, NullMetric),
           StatusSentiment("playing", 120, Num(240)),
           StatusSentiment("backlog", 480, Num(260))>>),
     SentimentEntry("Action", Num(272), Num(240), 45, <<>>),
     SentimentEntry("Puzzle", Num(240), Num(272), 90,
         <<StatusSentiment("lent", 90, Num(272))>>),
     SentimentEntry("Indie", Num(271), Num(240), 30, <<>>),
     SentimentEntry("Racing", Num(322), Num(240), 30, <<>>),
     SentimentEntry("Horror", NullMetric, Num(240), 15, <<>>),
     SentimentEntry("Sports", Num(280), NullMetric, 0, <<>>),
     SentimentEntry("Rhythm", NullMetric, NullMetric, 0, <<>>)}

SentimentBodyOf(genres) == [present |-> TRUE, genres |-> genres]

MissingSentimentBody == [present |-> FALSE, genres |-> <<>>]

SentimentBodies ==
    {MissingSentimentBody}
    \cup {SentimentBodyOf(genres) :
            genres \in UNION {[1..n -> SentimentEntries] : n \in 0..MaxSentimentGenres}}

NoSentimentBody == [fetched |-> FALSE, body |-> MissingSentimentBody]

NoGap == [kind |-> "none", magnitude |-> 0]

\* the gap computed from interest alone
GapFromInterest(interest, enjoyment) ==
    IF IsFinite(interest)
    THEN LET delta == interest.quarters - 200
             magnitude == MathRound(Abs(delta))
         IN  IF delta >= GapThreshold THEN [kind |-> "hype", magnitude |-> magnitude]
             ELSE IF delta <= -GapThreshold
                  THEN [kind |-> "enjoyment", magnitude |-> magnitude]
                  ELSE [kind |-> "aligned", magnitude |-> 0]
    ELSE NoGap

\* the gap paragraph: delta = interestScore - enjoymentScore
Gap(interest, enjoyment) ==
    IF IsFinite(interest) /\ IsFinite(enjoyment)
    THEN LET delta == interest.quarters - enjoyment.quarters
             magnitude == MathRound(Abs(delta))
         IN  IF delta >= GapThreshold THEN [kind |-> "hype", magnitude |-> magnitude]
             ELSE IF delta <= -GapThreshold
                  THEN [kind |-> "enjoyment", magnitude |-> magnitude]
                  ELSE [kind |-> "aligned", magnitude |-> 0]
    ELSE NoGap

\* buildBar(label, value, type)
Bar(value) ==
    IF IsFinite(value) THEN formatScorePoints(value) ELSE Placeholder(DASH)

\* statusEntries.sort by getBucketOrderIndex, stable
RECURSIVE InsertStatus(_, _, _)
InsertStatus(sorted, e, order) ==
    IF sorted = <<>> THEN <<e>>
    ELSE IF getBucketOrderIndex(e.bucket, order)
              < getBucketOrderIndex(Head(sorted).bucket, order)
         THEN <<e>> \o sorted
         ELSE <<Head(sorted)>> \o InsertStatus(Tail(sorted), e, order)

RECURSIVE SortStatuses(_, _)
SortStatuses(list, order) ==
    IF list = <<>> THEN <<>>
    ELSE InsertStatus(SortStatuses(SubSeq(list, 1, Len(list) - 1), order),
                      list[Len(list)], order)

StatusChips(entry, order) ==
    LET kept == SelectSeqBy(entry.statuses,
                    {e \in {entry.statuses[i] : i \in DOMAIN entry.statuses} :
                        IsFinite(e.weighted_sentiment)
                        \/ e.total_playtime_minutes > 0})
        sorted == SortStatuses(kept, order)
    IN  [i \in DOMAIN sorted |->
            [bucket |-> sorted[i].bucket,
             score |-> formatScorePoints(sorted[i].weighted_sentiment)]]

SentimentItem(entry, order) ==
    [genre |-> entry.genre,
     interest |-> Bar(entry.interest_score),
     enjoyment |-> Bar(entry.weighted_sentiment),
     gap |-> Gap(entry.interest_score, entry.weighted_sentiment),
     chips |-> StatusChips(entry, order)]

NoSentimentView == [state |-> "initial", items |-> <<>>]

\* Array.isArray(summary?.genres) ? summary.genres : []
SentimentGenresOf(body) == IF body.present THEN body.genres ELSE <<>>

SentimentViewOf(body, order) ==
    IF SentimentGenresOf(body) = <<>>
    THEN [state |-> "empty", items |-> <<>>]
    ELSE [state |-> "content",
          items |-> [i \in DOMAIN body.genres |->
                        SentimentItem(body.genres[i], order)]]

SentimentIdle ==
    /\ insightBuckets = <<>>
    /\ sentimentBody = NoSentimentBody
    /\ sentimentView = NoSentimentView

\* the page receives the body of GET /api/insights/genre-sentiment
FetchSentimentBody ==
    /\ ~sentimentBody.fetched
    /\ \E body \in SentimentBodies :
          sentimentBody' = [fetched |-> TRUE, body |-> body]
    /\ UNCHANGED <<insightBuckets, sentimentView, exceptSent>>

\* renderGenreSentimentComparison(root, summary)
RenderGenreSentimentComparison ==
    /\ sentimentBody.fetched
    /\ sentimentView' = SentimentViewOf(sentimentBody.body, insightBuckets)
    /\ UNCHANGED <<insightBuckets, sentimentBody, exceptSent>>

---------------------------------------------------------------------------
(* The insights page: initInsightsPage fetches the four summaries with one *)
(* Promise.all and renders the five sections.                              *)

Endpoints == {"genres", "sentiment", "lifecycle", "engagement"}

SectionNames == {"engagement", "callouts", "genre", "sentiment", "lifecycle"}

\* the endpoint a section's data comes from
EndpointOf(section) ==
    CASE section = "engagement" -> "engagement"
      [] section = "callouts" -> "engagement"
      [] section = "genre" -> "genres"
      [] section = "sentiment" -> "sentiment"
      [] section = "lifecycle" -> "lifecycle"

\* the bodies a response can carry: "missing" is {} (or null), "empty" is
\* the summary of empty collections, "sample" a summary with data, "flat"
\* a timeline whose periods have no playtime, "malformed" a summary whose
\* list holds a null entry (its renderer throws a TypeError on the entry)
BodyKinds(endpoint) ==
    IF endpoint = "engagement"
    THEN {"missing", "empty", "sample", "flat", "malformed"}
    ELSE {"missing", "empty", "sample", "malformed"}

Response(status, kind) == [status |-> status, kind |-> kind]

NoResponse == Response("none", "none")

PendingResponse == Response("pending", "none")

\* fetchJSON throws when !response.ok
FailedResponse == Response("failed", "none")

\* one body: Action before RPG, which every ranking reorders
SampleGenreBodies ==
    {GenreBodyOf(
         <<CHOOSE e \in ViewEntries : e.genre = "Action",
           CHOOSE e \in ViewEntries : e.genre = "RPG">>,
         ViewBucketOrder)}

GenrePageBody(kind) ==
    CASE kind = "empty" -> GenreBodyOf(<<>>, ViewBucketOrder)
      [] kind = "sample" -> CHOOSE body \in SampleGenreBodies : TRUE
      [] OTHER -> MissingGenreBody

SentimentPageBody(kind) ==
    CASE kind = "empty" -> SentimentBodyOf(<<>>)
      [] kind = "sample" ->
            SentimentBodyOf(<<CHOOSE e \in SentimentEntries : e.genre = "RPG">>)
      [] OTHER -> MissingSentimentBody

LifecycleBodyOf(summary) == [present |-> TRUE, summary |-> summary]

MissingLifecycleBody ==
    [present |-> FALSE, summary |-> LifecycleSummary(<<>>, 0)]

LifecyclePageBody(kind) ==
    CASE kind = "empty" -> LifecycleBodyOf(LifecycleSummary(<<>>, FirstToday))
      [] kind = "sample" ->
            LifecycleBodyOf(LifecycleSummary(
                <<DatedGame(1, JsStr(S_backlog), 1500, <<>>, 0, NoDate, NoDate),
                  DatedGame(2, JsStr(S_story_clear), 1500, <<>>, 0, 10, 41)>>,
                FirstToday))
      [] OTHER -> MissingLifecycleBody

EngagementBodyOf(summary) == [present |-> TRUE, summary |-> summary]

MissingEngagementBody ==
    [present |-> FALSE, summary |-> [timeline |-> <<>>, callouts |-> <<>>]]

EngagementPageBody(kind) ==
    CASE kind = "empty" -> EngagementBodyOf(EngagementSummary(<<>>, "monthly"))
      [] kind = "sample" ->
            EngagementBodyOf(EngagementSummary(
                <<Session(0, 100), Session(62, 200)>>, "monthly"))
      [] kind = "flat" ->
            EngagementBodyOf(
                [timeline |-> <<[period_start |-> 0, total_minutes |-> 0,
                                 sessions |-> 1]>>,
                 callouts |-> <<>>])
      [] OTHER -> MissingEngagementBody

\* Array.isArray(summary?.timeline) ? summary.timeline : []
TimelineOf(body) == IF body.present THEN body.summary.timeline ELSE <<>>

\* Array.isArray(summary?.callouts) ? summary.callouts : []
CalloutsOf_(body) == IF body.present THEN body.summary.callouts ELSE <<>>

\* Math.max(...minutesValues) > 0
HasPlaytime(timeline) == \E i \in DOMAIN timeline : timeline[i].total_minutes > 0

TrendView(state, points) == [state |-> state, points |-> points]

\* the trend without the empty-timeline check: Math.max() of no values is
\* -Infinity, which the playtime check catches
renderEngagementTrendUnguarded(body) ==
    LET timeline == TimelineOf(body)
    IN  IF ~HasPlaytime(timeline) THEN TrendView("no-playtime", 0)
        ELSE TrendView("chart", Len(timeline))

\* renderEngagementTrend(root, summary)
renderEngagementTrend(body) ==
    LET timeline == TimelineOf(body)
    IN  IF Len(timeline) = 0 THEN TrendView("empty", 0)
        ELSE IF ~HasPlaytime(timeline) THEN TrendView("no-playtime", 0)
        ELSE TrendView("chart", Len(timeline))

\* renderEngagementCallouts(root, summary): at most four cards
renderEngagementCallouts(body) ==
    LET callouts == CalloutsOf_(body)
    IN  IF Len(callouts) = 0 THEN [state |-> "empty", cards |-> <<>>]
        ELSE [state |-> "cards",
              cards |-> [i \in 1..(IF Len(callouts) > 4 THEN 4 ELSE Len(callouts))
                            |-> callouts[i].type]]

\* renderGenreInsights(root, summary), as first rendered
renderGenreInsights(body) ==
    IF GenresOf(body) = <<>> THEN EmptyGenreView
    ELSE GenreViewOf("content", "share", "total",
                     updateLists(GenresOf(body), "share", "total",
                                 AvailableBuckets(body)))

\* summary?.x ?? {} and count ?? 0
MissingStage == [statistics |-> [count |-> 0]]

\* renderLifecycleSummary(root, summary) with its fallbacks
renderLifecycleSummary(body) ==
    IF body.present THEN LifecycleView(body.summary)
    ELSE LifecycleView([purchase_to_start |-> MissingStage,
                        start_to_finish |-> MissingStage,
                        purchase_to_finish |-> MissingStage,
                        aging_backlog |-> <<>>])

\* summary?.bucket_order || []
BucketOrderOf(body) == IF body.present THEN body.bucket_order ELSE <<>>

Section(state, view) == [state |-> state, view |-> view]

\* the sections as the page template ships them
InitialSections ==
    [engagement |-> Section("initial", TrendView("initial", 0)),
     callouts |-> Section("initial", [state |-> "initial", cards |-> <<>>]),
     genre |-> Section("initial", NoGenreView),
     sentiment |-> Section("initial", NoSentimentView),
     lifecycle |-> Section("initial", NoLifecycleView),
     playtimeCard |-> "placeholder"]

\* the try branch: the five renderers, in the order of the code
LoadedSections(gBody, sBody, lBody, eBody) ==
    [engagement |-> Section("loaded", renderEngagementTrend(eBody)),
     callouts |-> Section("loaded", renderEngagementCallouts(eBody)),
     genre |-> Section("loaded", renderGenreInsights(gBody)),
     sentiment |-> Section("loaded",
                     SentimentViewOf(sBody, BucketOrderOf(gBody))),
     lifecycle |-> Section("loaded", renderLifecycleSummary(lBody)),
     playtimeCard |-> IF Len(TimelineOf(eBody)) > 0
                      THEN "value" ELSE "placeholder"]

\* the catch branch: an error paragraph replaces every section's content
ErrorSections(shown) ==
    [engagement |-> Section("error", shown.engagement.view),
     callouts |-> Section("error", shown.callouts.view),
     genre |-> Section("error", shown.genre.view),
     sentiment |-> Section("error", shown.sentiment.view),
     lifecycle |-> Section("error", shown.lifecycle.view),
     playtimeCard |-> shown.playtimeCard]

PageIdle ==
    /\ pageState = "initial"
    /\ responses = [e \in Endpoints |-> NoResponse]
    /\ sections = InitialSections

\* initInsightsPage up to the await: the four requests are sent
InsightsStart ==
    /\ pageState = "initial"
    /\ pageState' = "loading"
    /\ responses' = [e \in Endpoints |-> PendingResponse]
    /\ UNCHANGED <<sections, sentVars, exceptPageSent>>

\* one request is answered with a body
ResponseOk ==
    /\ pageState = "loading"
    /\ \E e \in Endpoints :
          /\ responses[e].status = "pending"
          /\ \E kind \in BodyKinds(e) :
                responses' = [responses EXCEPT ![e] = Response("ok", kind)]
    /\ UNCHANGED <<pageState, sections, sentVars, exceptPageSent>>

\* one request is answered with an error status
ResponseFailed ==
    /\ pageState = "loading"
    /\ \E e \in Endpoints :
          /\ responses[e].status = "pending"
          /\ responses' = [responses EXCEPT ![e] = FailedResponse]
    /\ UNCHANGED <<pageState, sections, sentVars, exceptPageSent>>

\* every renderer runs to its end whatever the bodies
RenderersDoneAlways(kinds) == 5

\* the renderers that have run to their end when the try branch throws:
\* the playtime card reads the last timeline entry before any renderer
\* runs, then the renderers run in the order engagement trend, callouts,
\* genre, sentiment, lifecycle
RenderersDone(kinds) ==
    IF kinds["engagement"] = "malformed" THEN 0
    ELSE IF kinds["genres"] = "malformed" THEN 2
    ELSE IF kinds["sentiment"] = "malformed" THEN 3
    ELSE IF kinds["lifecycle"] = "malformed" THEN 4
    ELSE 5

\* what the sections show when only the first renderers have run
PartlyRendered(done, loaded) ==
    [engagement |-> IF done >= 1 THEN loaded.engagement
                    ELSE InitialSections.engagement,
     callouts |-> IF done >= 2 THEN loaded.callouts ELSE InitialSections.callouts,
     genre |-> IF done >= 3 THEN loaded.genre ELSE InitialSections.genre,
     sentiment |-> IF done >= 4 THEN loaded.sentiment
                   ELSE InitialSections.sentiment,
     lifecycle |-> IF done >= 5 THEN loaded.lifecycle
                   ELSE InitialSections.lifecycle,
     playtimeCard |-> IF done >= 1 THEN loaded.playtimeCard
                      ELSE InitialSections.playtimeCard]

\* Promise.all resolved: the try branch runs until a renderer throws or to
\* its end; when one throws the catch branch runs
InsightsRendered ==
    /\ pageState = "loading"
    /\ \A e \in Endpoints : responses[e].status = "ok"
    /\ LET gBody == GenrePageBody(responses["genres"].kind)
           done == RenderersDone([e \in Endpoints |-> responses[e].kind])
           loaded == LoadedSections(
                         gBody,
                         SentimentPageBody(responses["sentiment"].kind),
                         LifecyclePageBody(responses["lifecycle"].kind),
                         EngagementPageBody(responses["engagement"].kind))
       IN  /\ insightBuckets' = BucketOrderOf(gBody)
           /\ IF done = 5
              THEN /\ sections' = loaded
                   /\ pageState' = "loaded"
              ELSE /\ sections' = ErrorSections(PartlyRendered(done, loaded))
                   /\ pageState' = "error"
    /\ UNCHANGED <<responses, sentimentBody, sentimentView, exceptPageSent>>

\* Promise.all rejected with the first failure: the catch branch
InsightsFailed ==
    /\ pageState = "loading"
    /\ \E e \in Endpoints : responses[e].status = "failed"
    /\ sections' = ErrorSections(sections)
    /\ pageState' = "error"
    /\ UNCHANGED <<responses, sentVars, exceptPageSent>>

---------------------------------------------------------------------------
(* The game forms: the add-game form (initAddGamePage), the edit form of a *)
(* library card (createGameCard) and the edit form of the detail page      *)
(* (initGameDetailPage).                                                   *)

D_2024_01_05 == <<"2","0","2","4","-","0","1","-","0","5">>

FormKinds == {"add", "card", "detail"}

FormTitles == {<<>>, K_Hades}

\* the status field: registry values as the select offers them, and what a
\* hand-made submit can carry
FormStatuses == {S_backlog, S_wishlist, Capitalize(S_playing), <<>>}

\* a date input holds "" or a date; the fields read as text can hold blanks
FormPurchases(kind) ==
    IF kind = "card" THEN {<<>>, D_2024_01_05}
    ELSE {<<>>, <<" ">>, D_2024_01_05}

GameForm(kind, title, status, purchase) ==
    [kind |-> kind, title |-> title, status |-> status, purchase |-> purchase]

NoGameRequest ==
    [state |-> "none", method |-> "", status |-> <<>>, purchase_date |-> JsUndefined]

GameRequest(method, status, purchase) ==
    [state |-> "pending", method |-> method, status |-> status,
     purchase_date |-> purchase]

TITLE_REQUIRED == "Title is required."

PURCHASE_REQUIRED == "Purchase date is required once you've purchased the game."

\* the field as sent without trimming
FormFieldUntrimmed(value) == JsToString(OrEmpty(JsStr(value)))

\* String(payload.x || "").trim()
FormField(value) == trim(JsToString(OrEmpty(JsStr(value))))

\* value ? value : null
ValueOrNull(value) == IF value = <<>> THEN JsNull ELSE JsStr(value)

GameFormIdle ==
    /\ gameForm = GameForm("add", <<>>, <<>>, <<>>)
    /\ gameRequest = NoGameRequest
    /\ gameMessage = ""

\* the user fills one of the forms in
FillGameForm ==
    /\ gameRequest.state # "pending"
    /\ \E kind \in FormKinds, title \in FormTitles, status \in FormStatuses :
          \E purchase \in FormPurchases(kind) :
              gameForm' = GameForm(kind, title, status, purchase)
    /\ gameRequest' = NoGameRequest
    /\ gameMessage' = ""
    /\ UNCHANGED exceptGform

\* initAddGamePage: submit, up to the await of POST /api/games
SubmitAddGame ==
    /\ gameForm.kind = "add"
    /\ LET title == FormField(gameForm.title)
           status == toLowerCase(trim(
                         IF gameForm.status = <<>> THEN DEFAULT_STATUS
                         ELSE gameForm.status))
           purchase_date == FormField(gameForm.purchase)
       IN  IF title = <<>>
           THEN /\ gameMessage' = TITLE_REQUIRED
                /\ UNCHANGED gameRequest
           ELSE IF statusRequiresPurchase(JsStr(status)) /\ purchase_date = <<>>
           THEN /\ gameMessage' = PURCHASE_REQUIRED
                /\ UNCHANGED gameRequest
           ELSE /\ gameRequest' =
                      GameRequest("POST", status,
                                  IF purchase_date = <<>> THEN JsUndefined
                                  ELSE JsStr(purchase_date))
                /\ gameMessage' = "sending"
    /\ UNCHANGED <<gameForm, exceptGform>>

\* the edit forms: title, purchase requirement, then PUT /api/games/:id
SubmitEdit(purchase, savingText) ==
    LET title == trim(gameForm.title)
        status == gameForm.status
    IN  IF title = <<>>
        THEN /\ gameMessage' = TITLE_REQUIRED
             /\ UNCHANGED gameRequest
        ELSE IF ~statusRequiresPurchase(JsStr(status))
        THEN /\ gameRequest' = GameRequest("PUT", status, JsNull)
             /\ gameMessage' = savingText
        ELSE IF ~JsTruthy(purchase)
        THEN /\ gameMessage' = PURCHASE_REQUIRED
             /\ UNCHANGED gameRequest
        ELSE /\ gameRequest' = GameRequest("PUT", status, purchase)
             /\ gameMessage' = savingText

\* createGameCard: submit of the card's edit form; no second save while one
\* is running
SubmitCardEdit ==
    /\ gameForm.kind = "card"
    /\ gameRequest.state # "pending"
    /\ SubmitEdit(ValueOrNull(gameForm.purchase), "Saving...")
    /\ UNCHANGED <<gameForm, exceptGform>>

\* initGameDetailPage: submit of the detail page's edit form
SubmitDetailEdit ==
    /\ gameForm.kind = "detail"
    /\ SubmitEdit(ValueOrNull(FormField(gameForm.purchase)), "Saving changes...")
    /\ UNCHANGED <<gameForm, exceptGform>>

\* the server answers the request
GameRequestSettles ==
    /\ gameRequest.state = "pending"
    /\ \E outcome \in {"ok", "failed"} :
          /\ gameRequest' = [gameRequest EXCEPT !.state = outcome]
          /\ gameMessage' = IF outcome = "failed" THEN "error"
                            ELSE IF gameRequest.method = "POST" THEN "Game added."
                            ELSE "Game updated."
    /\ UNCHANGED <<gameForm, exceptGform>>

---------------------------------------------------------------------------
(* Overlapping fetchAndCacheGames calls: every page that needs the library *)
(* calls it, and nothing orders the responses.                             *)

MaxFetches == 2

GamesRequest(state, games) == [state |-> state, games |-> games]

FetchIdle == gamesRequests = <<>>

\* fetchAndCacheGames({force}) up to its await: a cached library answers an
\* unforced call, anything else issues GET /api/games
IssueFetch ==
    /\ Len(gamesRequests) < MaxFetches
    /\ \E force \in BOOLEAN :
          /\ force \/ Len(cachedGames) = 0
          /\ gamesRequests' = Append(gamesRequests, GamesRequest("sent", <<>>))
    /\ UNCHANGED <<libVars, exceptLibFetch>>

\* the server answers one request with the library as it is then
ServerAnswersFetch ==
    /\ \E i \in DOMAIN gamesRequests :
          /\ gamesRequests[i].state = "sent"
          /\ gamesRequests' =
                 [gamesRequests EXCEPT ![i] = GamesRequest("answered", serverGames)]
    /\ UNCHANGED <<libVars, exceptLibFetch>>

\* one response reaches the page: state.cachedGames = games
FetchResponseArrives ==
    /\ \E i \in DOMAIN gamesRequests :
          /\ gamesRequests[i].state = "answered"
          /\ gamesRequests' = [gamesRequests EXCEPT ![i].state = "done"]
          /\ LET fetched == fetchAndCacheGames(cachedGames, gamesRequests[i].games)
             IN  /\ cachedGames' = fetched.cachedGames
                 /\ heldGames' =
                       IF heldGames.aliased
                       THEN [held |-> TRUE, aliased |-> FALSE,
                             games |-> fetched.previous]
                       ELSE heldGames
    /\ UNCHANGED <<serverGames, libPc, libResp, grouped, libRendered,
                   exceptLibFetch>>

---------------------------------------------------------------------------
(* The add-game page: Steam metadata lookup, title autofill and the reset  *)
(* after a successful submit.                                              *)

MaxToken == 2
MaxLookups == 2

\* App IDs the user types; 0 stands for an empty (or blank) field
AppIds == {1, 2}

\* data.name of the Steam payload for an App ID
SteamName(appId) == IF appId = 1 THEN K_Hades ELSE K_Celeste

TypedNewTitles == {<<>>, <<" ">>, K_Doom}

Title(text, writer) == [text |-> text, writer |-> writer]

\* state: "sent", then "applied" or "ignored" when the response has come
Lookup(token, appId) ==
    [token |-> token, appId |-> appId, superseded |-> FALSE, state |-> "sent"]

InFlight(lookups) == {l \in lookups : l.state = "sent"}

\* the lookup's response has been handled
Answered(lookups, l, current) ==
    (lookups \ {l}) \cup {[l EXCEPT !.state = IF current THEN "applied" ELSE "ignored"]}

DefaultPreview == [kind |-> "default", appId |-> 0]

SteamIdle ==
    /\ steamAppIdInput = 0
    /\ steamLookupToken = 0
    /\ steamLookupTimeout = 0
    /\ steamLookups = {}
    /\ steamPreview = DefaultPreview
    /\ steamStatus = "default"
    /\ titleInput = Title(<<>>, "reset")
    /\ titleAutofilled = FALSE
    /\ addGamePost = [state |-> "idle", resetSince |-> FALSE]

\* every lookup in flight is superseded
Supersede(lookups) ==
    {IF l.state = "sent" THEN [l EXCEPT !.superseded = TRUE] ELSE l : l \in lookups}

\* the title replaced whatever the field holds
applyTitleAutofillAlways(title, autofilled, value) ==
    IF trim(value) = <<>> THEN [title |-> title, autofilled |-> autofilled]
    ELSE [title |-> Title(trim(value), "autofill"), autofilled |-> TRUE]

\* applyTitleAutofill(value)
applyTitleAutofill(title, autofilled, value) ==
    IF trim(value) = <<>> THEN [title |-> title, autofilled |-> autofilled]
    ELSE IF trim(title.text) = <<>> \/ autofilled
         THEN [title |-> Title(trim(value), "autofill"), autofilled |-> TRUE]
         ELSE [title |-> title, autofilled |-> autofilled]

\* every response is taken for the current lookup's
AlwaysCurrent(token, current) == TRUE

\* token === steamLookupToken
IsCurrentLookup(token, current) == token = current

\* input event on the title field: clearTitleAutofill
TypeTitle ==
    /\ \E text \in TypedNewTitles : titleInput' = Title(text, "user")
    /\ titleAutofilled' = FALSE
    /\ UNCHANGED <<steamAppIdInput, steamLookupToken, steamLookupTimeout,
                   steamLookups, steamPreview, steamStatus, addGamePost,
                   exceptSteam>>

\* input event on the App ID field: scheduleSteamLookup
InputAppId ==
    /\ \E value \in AppIds \cup {0} :
          /\ value # steamAppIdInput
          /\ steamAppIdInput' = value
          /\ IF value = 0
             THEN /\ steamLookupToken < MaxToken
                  /\ steamLookupToken' = steamLookupToken + 1
                  /\ steamLookupTimeout' = 0
                  /\ steamLookups' = Supersede(steamLookups)
                  /\ steamPreview' = DefaultPreview
                  /\ steamStatus' = "default"
             ELSE /\ steamLookupTimeout' = value
                  /\ UNCHANGED <<steamLookupToken, steamLookups, steamPreview,
                                 steamStatus>>
    /\ addGamePost' = [addGamePost EXCEPT !.resetSince = FALSE]
    /\ UNCHANGED <<titleInput, titleAutofilled, exceptSteam>>

\* blur event on the App ID field
BlurAppId ==
    /\ steamAppIdInput = 0
    /\ steamPreview' = DefaultPreview
    /\ steamStatus' = "default"
    /\ UNCHANGED <<steamAppIdInput, steamLookupToken, steamLookupTimeout,
                   steamLookups, titleInput, titleAutofilled, addGamePost,
                   exceptSteam>>

\* the debounce timer fires: lookupSteamMetadata(value) up to its await
StartLookup ==
    /\ steamLookupTimeout # 0
    /\ steamLookupToken < MaxToken
    /\ Cardinality(InFlight(steamLookups)) < MaxLookups
    /\ steamLookupToken' = steamLookupToken + 1
    /\ steamLookups' = Supersede(steamLookups)
                           \cup {Lookup(steamLookupToken + 1, steamLookupTimeout)}
    /\ steamLookupTimeout' = 0
    /\ steamStatus' = "fetching"
    /\ UNCHANGED <<steamAppIdInput, steamPreview, titleInput, titleAutofilled,
                   addGamePost, exceptSteam>>

\* GET /api/steam/:appId answers with details: the rest of the try branch
LookupSucceeds ==
    \E l \in InFlight(steamLookups) :
        /\ steamLookups' = Answered(steamLookups, l,
                                    IsCurrentLookup(l.token, steamLookupToken))
        /\ IF IsCurrentLookup(l.token, steamLookupToken)
           THEN LET filled == applyTitleAutofill(titleInput, titleAutofilled,
                                                 SteamName(l.appId))
                IN  /\ titleInput' = filled.title
                    /\ titleAutofilled' = filled.autofilled
                    /\ steamPreview' = [kind |-> "details", appId |-> l.appId]
                    /\ steamStatus' = "loaded"
           ELSE UNCHANGED <<titleInput, titleAutofilled, steamPreview, steamStatus>>
        /\ UNCHANGED <<steamAppIdInput, steamLookupToken, steamLookupTimeout,
                       addGamePost, exceptSteam>>

\* the request fails or carries no details: the catch branch
LookupFails ==
    \E l \in InFlight(steamLookups) :
        /\ steamLookups' = Answered(steamLookups, l,
                                    IsCurrentLookup(l.token, steamLookupToken))
        /\ IF IsCurrentLookup(l.token, steamLookupToken)
           THEN /\ steamPreview' = [kind |-> "error", appId |-> l.appId]
                /\ steamStatus' = "error"
           ELSE UNCHANGED <<steamPreview, steamStatus>>
        /\ UNCHANGED <<steamAppIdInput, steamLookupToken, steamLookupTimeout,
                       titleInput, titleAutofilled, addGamePost, exceptSteam>>

\* the form is submitted with a title: POST /api/games is sent
PostNewGame ==
    /\ addGamePost.state = "idle"
    /\ trim(titleInput.text) # <<>>
    /\ addGamePost' = [state |-> "posting", resetSince |-> FALSE]
    /\ UNCHANGED <<steamAppIdInput, steamLookupToken, steamLookupTimeout,
                   steamLookups, steamPreview, steamStatus, titleInput,
                   titleAutofilled, exceptSteam>>

\* the POST succeeded: form.reset(), clearTitleAutofill(),
\* clearSteamMetadataPreview(), default status text
NewGameSaved ==
    /\ addGamePost.state = "posting"
    /\ addGamePost' = [state |-> "idle", resetSince |-> TRUE]
    /\ steamAppIdInput' = 0
    /\ titleInput' = Title(<<>>, "reset")
    /\ titleAutofilled' = FALSE
    /\ steamPreview' = DefaultPreview
    /\ steamStatus' = "default"
    /\ UNCHANGED <<steamLookupToken, steamLookupTimeout, steamLookups, exceptSteam>>

\* the POST failed: only the message line changes
NewGameRejected ==
    /\ addGamePost.state = "posting"
    /\ addGamePost' = [state |-> "idle", resetSince |-> FALSE]
    /\ UNCHANGED <<steamAppIdInput, steamLookupToken, steamLookupTimeout,
                   steamLookups, steamPreview, steamStatus, titleInput,
                   titleAutofilled, exceptSteam>>

---------------------------------------------------------------------------
(* The rankings page: initRankingsPage with loadPair, handlePairSelection  *)
(* and loadRanking.                                                        *)

\* no user action is taken once it could push the number of requests issued
\* past this (the chains under way still run to their end)
MaxRankRequests == 7

RankStatuses == {"backlog", "wishlist"}

\* owner: the call chain that awaits the request ("init" and "select" go
\* on to the next request, "change" and "retry" do not)
RankRequest(id, kind, status, owner) ==
    [id |-> id, kind |-> kind, status |-> status, owner |-> owner]

PairShown(kind, status) == [kind |-> kind, status |-> status]

InFlightKind(requests, kind) == {r \in requests : r.kind = kind}

RankIdle ==
    /\ rankSelected = "backlog"
    /\ rankRequests = {}
    /\ rankIssued = 0
    /\ loadingPair = FALSE
    /\ submitting = FALSE
    /\ pairShown = PairShown("none", "")
    /\ rankingShown = "none"

\* a handler without the guard on the flag
AlreadySubmittingNever(flag) == FALSE

\* if (state.submitting) return
AlreadySubmitting(flag) == flag

\* initRankingsPage up to its first await: loadRanking(initialStatus)
StartRankingsPage ==
    /\ rankIssued = 0
    /\ rankIssued' = 1
    /\ rankRequests' = {RankRequest(1, "ranking", rankSelected, "init")}
    /\ UNCHANGED <<rankSelected, loadingPair, submitting, pairShown, rankingShown,
                   exceptRank>>

\* change of the status select: loadRanking(status); loadPair(status, force)
ChangeRankStatus ==
    /\ rankIssued > 0
    /\ rankIssued + 2 <= MaxRankRequests
    /\ \E status \in RankStatuses \ {rankSelected} :
          /\ rankSelected' = status
          /\ rankRequests' = rankRequests
                 \cup {RankRequest(rankIssued + 1, "ranking", status, "change"),
                       RankRequest(rankIssued + 2, "pair", status, "change")}
          /\ pairShown' = PairShown("loading", status)
    /\ rankIssued' = rankIssued + 2
    /\ loadingPair' = TRUE
    /\ UNCHANGED <<submitting, rankingShown, exceptRank>>

\* click on "Try again": loadPair(statusSelect.value, force)
RetryPair ==
    /\ pairShown.kind = "error"
    /\ rankIssued + 1 <= MaxRankRequests
    /\ rankRequests' = rankRequests
           \cup {RankRequest(rankIssued + 1, "pair", rankSelected, "retry")}
    /\ rankIssued' = rankIssued + 1
    /\ loadingPair' = TRUE
    /\ pairShown' = PairShown("loading", rankSelected)
    /\ UNCHANGED <<rankSelected, submitting, rankingShown, exceptRank>>

\* click on "Pick this game": handlePairSelection up to its first await
PickGame ==
    /\ pairShown.kind = "pair"
    /\ rankIssued + 3 <= MaxRankRequests
    /\ IF AlreadySubmitting(submitting)
       THEN UNCHANGED <<rankRequests, rankIssued, submitting>>
       ELSE /\ submitting' = TRUE
            /\ rankRequests' = rankRequests
                   \cup {RankRequest(rankIssued + 1, "compare", pairShown.status,
                                     "select")}
            /\ rankIssued' = rankIssued + 1
    /\ UNCHANGED <<rankSelected, loadingPair, pairShown, rankingShown, exceptRank>>

\* POST /api/rankings/:status/compare is answered
CompareAnswered ==
    \E r \in InFlightKind(rankRequests, "compare"), ok \in BOOLEAN :
        /\ IF ok
           THEN \* await loadRanking(status)
                /\ rankRequests' = (rankRequests \ {r})
                       \cup {RankRequest(rankIssued + 1, "ranking", r.status, "select")}
                /\ rankIssued' = rankIssued + 1
                /\ UNCHANGED submitting
           ELSE \* catch, finally
                /\ rankRequests' = rankRequests \ {r}
                /\ submitting' = FALSE
                /\ UNCHANGED rankIssued
        /\ UNCHANGED <<rankSelected, loadingPair, pairShown, rankingShown, exceptRank>>

\* GET /api/rankings/:status is answered: the rest of loadRanking, and for
\* the chains that await it the start of loadPair(status, force)
RankingAnswered ==
    \E r \in InFlightKind(rankRequests, "ranking"), ok \in BOOLEAN :
        /\ rankingShown' = IF ok THEN r.status ELSE "error"
        /\ IF r.owner \in {"init", "select"}
           THEN /\ rankRequests' = (rankRequests \ {r})
                       \cup {RankRequest(rankIssued + 1, "pair", r.status, r.owner)}
                /\ rankIssued' = rankIssued + 1
                /\ loadingPair' = TRUE
                /\ pairShown' = PairShown("loading", r.status)
           ELSE /\ rankRequests' = rankRequests \ {r}
                /\ UNCHANGED <<rankIssued, loadingPair, pairShown>>
        /\ UNCHANGED <<rankSelected, submitting, exceptRank>>

\* GET /api/rankings/:status/pair is answered: the rest of loadPair, and
\* for a selection the finally of handlePairSelection
PairAnswered ==
    \E r \in InFlightKind(rankRequests, "pair"),
       outcome \in {"pair", "message", "error"} :
        /\ rankRequests' = rankRequests \ {r}
        /\ pairShown' = PairShown(outcome, r.status)
        /\ loadingPair' = FALSE
        /\ submitting' = IF r.owner = "select" THEN FALSE ELSE submitting
        /\ UNCHANGED <<rankSelected, rankIssued, rankingShown, exceptRank>>

---------------------------------------------------------------------------
(* The matchup panels of the combined page: one pairState per status.      *)

MaxPanelRequests == 6

PanelState(loading, isSubmitting) == [loading |-> loading, submitting |-> isSubmitting]

PanelIdle ==
    /\ pairState = [status \in RankStatuses |-> PanelState(FALSE, FALSE)]
    /\ panelShown = [status \in RankStatuses |-> "none"]
    /\ panelRequests = {}
    /\ panelIssued = 0

\* ensurePairLoaded(status): loadPair(status) unless a pair is held or loading
EnsurePairLoaded ==
    \E status \in RankStatuses :
        /\ panelShown[status] # "pair"
        /\ ~pairState[status].loading
        /\ panelIssued + 1 <= MaxPanelRequests
        /\ pairState' = [pairState EXCEPT ![status].loading = TRUE]
        /\ panelShown' = [panelShown EXCEPT ![status] = "loading"]
        /\ panelRequests' = panelRequests
               \cup {RankRequest(panelIssued + 1, "pair", status, "ensure")}
        /\ panelIssued' = panelIssued + 1
        /\ UNCHANGED exceptPanel

\* click on "Try again": loadPair(status, force)
PanelRetry ==
    \E status \in RankStatuses :
        /\ panelShown[status] = "error"
        /\ panelIssued + 1 <= MaxPanelRequests
        /\ pairState' = [pairState EXCEPT ![status].loading = TRUE]
        /\ panelShown' = [panelShown EXCEPT ![status] = "loading"]
        /\ panelRequests' = panelRequests
               \cup {RankRequest(panelIssued + 1, "pair", status, "retry")}
        /\ panelIssued' = panelIssued + 1
        /\ UNCHANGED exceptPanel

\* click on a pair button: handlePairSelection up to its first await
PanelPick ==
    \E status \in RankStatuses :
        /\ panelShown[status] = "pair"
        /\ panelIssued + 3 <= MaxPanelRequests
        /\ IF AlreadySubmitting(pairState[status].submitting)
           THEN UNCHANGED <<pairState, panelRequests, panelIssued>>
           ELSE /\ pairState' = [pairState EXCEPT ![status].submitting = TRUE]
                /\ panelRequests' = panelRequests
                       \cup {RankRequest(panelIssued + 1, "compare", status, "select")}
                /\ panelIssued' = panelIssued + 1
        /\ UNCHANGED <<panelShown, exceptPanel>>

\* the compare request is answered: on success await refreshRankings()
PanelCompareAnswered ==
    \E r \in InFlightKind(panelRequests, "compare"), ok \in BOOLEAN :
        /\ IF ok
           THEN /\ panelRequests' = (panelRequests \ {r})
                       \cup {RankRequest(panelIssued + 1, "ranking", r.status, "select")}
                /\ panelIssued' = panelIssued + 1
                /\ UNCHANGED pairState
           ELSE /\ panelRequests' = panelRequests \ {r}
                /\ pairState' = [pairState EXCEPT ![r.status].submitting = FALSE]
                /\ UNCHANGED panelIssued
        /\ UNCHANGED <<panelShown, exceptPanel>>

\* refreshRankings() is done: await loadPair(status, force)
PanelRankingsRefreshed ==
    \E r \in InFlightKind(panelRequests, "ranking") :
        /\ panelRequests' = (panelRequests \ {r})
               \cup {RankRequest(panelIssued + 1, "pair", r.status, r.owner)}
        /\ panelIssued' = panelIssued + 1
        /\ pairState' = [pairState EXCEPT ![r.status].loading = TRUE]
        /\ panelShown' = [panelShown EXCEPT ![r.status] = "loading"]
        /\ UNCHANGED exceptPanel

\* the pair request is answered: the rest of loadPair, and for a selection
\* the finally of handlePairSelection
PanelPairAnswered ==
    \E r \in InFlightKind(panelRequests, "pair"),
       outcome \in {"pair", "message", "error"} :
        /\ panelRequests' = panelRequests \ {r}
        /\ panelShown' = [panelShown EXCEPT ![r.status] = outcome]
        /\ pairState' = [pairState EXCEPT
               ![r.status] = PanelState(FALSE,
                   IF r.owner = "select" THEN FALSE ELSE @.submitting)]
        /\ UNCHANGED <<panelIssued, exceptPanel>>

---------------------------------------------------------------------------
(* The session game autocomplete: renderSessionGameOptions and the key     *)
(* listener of the field, in the sessions page and in the combined page.   *)

OptionGame(id, title) == [id |-> id, title |-> title]

\* the cached games the field searches
OptionGames == <<OptionGame(1, K_Doom), OptionGame(2, K_Celeste)>>

\* what the user can type into the field
TypedQueries ==
    {<<>>, <<" ">>, <<"d">>, <<"D", "o">>, <<"e">>, <<"x">>, <<"2">>}

\* String(game.id), for the ids of OptionGames
IdString(id) == <<<<"0", "1", "2", "3", "4", "5", "6", "7", "8", "9">>[id + 1]>>

\* text.startsWith(part)
StartsWith(text, part) ==
    /\ Len(part) <= Len(text)
    /\ SubSeq(text, 1, Len(part)) = part

\* text.includes(part)
Includes(text, part) ==
    \E start \in 1..(Len(text) + 1) :
        /\ start + Len(part) - 1 <= Len(text)
        /\ SubSeq(text, start, start + Len(part) - 1) = part

RECURSIVE Filter(_, _)
\* games.filter(...) for the normalized query
Filter(games, normalized) ==
    IF games = <<>> THEN <<>>
    ELSE LET game == Head(games)
             keep == \/ normalized = <<>>
                     \/ Includes(toLowerCase(game.title), normalized)
                     \/ StartsWith(IdString(game.id), normalized)
         IN  (IF keep THEN <<game>> ELSE <<>>) \o Filter(Tail(games), normalized)

\* the filter and slice(0, 10) of renderSessionGameOptions
MatchesFor(query) ==
    LET matches == Filter(OptionGames, toLowerCase(trim(query)))
    IN  SubSeq(matches, 1, IF Len(matches) > 10 THEN 10 ELSE Len(matches))

Rendered(matches, index, items) ==
    [matches |-> matches, index |-> index, items |-> items]

\* renderSessionGameOptions of initSessionsPage
renderSessionGameOptionsPage(query, held) ==
    LET matches == MatchesFor(query)
    IN  IF Len(matches) = 0 THEN Rendered(<<>>, -1, <<>>)
        ELSE Rendered(matches,
                      IF toLowerCase(trim(query)) # <<>> THEN 0 ELSE -1,
                      matches)

\* renderSessionGameOptions of the combined page: with no match it returns
\* after hiding the list
renderSessionGameOptions(query, held) ==
    LET matches == MatchesFor(query)
    IN  IF Len(matches) = 0 THEN Rendered(held.matches, held.index, <<>>)
        ELSE Rendered(matches,
                      IF toLowerCase(trim(query)) # <<>> THEN 0 ELSE -1,
                      matches)

Render(copy, query, held) ==
    IF copy = "page" THEN renderSessionGameOptionsPage(query, held)
    ELSE renderSessionGameOptions(query, held)

NotPicked == [id |-> 0, text |-> <<>>]

AutocompleteIdle ==
    /\ acCopy = "none"
    /\ sessionGameInput = <<>>
    /\ sessionGameMatches = <<>>
    /\ sessionGameHighlightIndex = -1
    /\ sessionGameItems = <<>>
    /\ sessionGamePicked = NotPicked

Held == Rendered(sessionGameMatches, sessionGameHighlightIndex, sessionGameItems)

Show(rendered) ==
    /\ sessionGameMatches' = rendered.matches
    /\ sessionGameHighlightIndex' = rendered.index
    /\ sessionGameItems' = rendered.items

\* hideSessionGameOptions()
Hide == Show(Rendered(<<>>, -1, <<>>))

\* the page starts: initSessionsPage renders the options for "", the
\* combined page hides them after loading the games
OpenSessionForm ==
    /\ acCopy = "none"
    /\ \E copy \in {"page", "global"} :
          /\ acCopy' = copy
          /\ IF copy = "page" THEN Show(Render(copy, <<>>, Held)) ELSE Hide
    /\ UNCHANGED <<sessionGameInput, sessionGamePicked, exceptAc>>

\* input event of the field
TypeSessionGame ==
    /\ acCopy # "none"
    /\ \E text \in TypedQueries \ {sessionGameInput} :
          /\ sessionGameInput' = text
          /\ Show(Render(acCopy, text, Held))
    /\ UNCHANGED <<acCopy, sessionGamePicked, exceptAc>>

\* focus event of the field
FocusSessionGame ==
    /\ acCopy # "none"
    /\ Show(Render(acCopy, sessionGameInput, Held))
    /\ UNCHANGED <<acCopy, sessionGameInput, sessionGamePicked, exceptAc>>

\* the timeout of the blur event, or Escape in the field
HideSessionGameOptions ==
    /\ acCopy # "none"
    /\ Hide
    /\ UNCHANGED <<acCopy, sessionGameInput, sessionGamePicked, exceptAc>>

\* mouseenter on an option item
HoverOption ==
    /\ acCopy # "none"
    /\ \E index \in DOMAIN sessionGameItems :
          sessionGameHighlightIndex' = index - 1
    /\ UNCHANGED <<acCopy, sessionGameInput, sessionGameMatches, sessionGameItems,
                   sessionGamePicked, exceptAc>>

\* ArrowDown or ArrowUp in the field
KeyArrow ==
    /\ acCopy # "none"
    /\ Len(sessionGameMatches) > 0
    /\ \E key \in {"ArrowDown", "ArrowUp"} :
          sessionGameHighlightIndex' =
              IF key = "ArrowDown"
              THEN IF sessionGameHighlightIndex + 1 >= Len(sessionGameMatches)
                   THEN 0 ELSE sessionGameHighlightIndex + 1
              ELSE IF sessionGameHighlightIndex <= 0
                   THEN Len(sessionGameMatches) - 1
                   ELSE sessionGameHighlightIndex - 1
    /\ UNCHANGED <<acCopy, sessionGameInput, sessionGameMatches, sessionGameItems,
                   sessionGamePicked, exceptAc>>

\* Enter in the field: selectSessionGame(sessionGameMatches[index])
KeyEnter ==
    /\ acCopy # "none"
    /\ sessionGameHighlightIndex >= 0
    /\ sessionGameHighlightIndex + 1 \in DOMAIN sessionGameMatches
    /\ LET selected == sessionGameMatches[sessionGameHighlightIndex + 1]
       IN  /\ sessionGamePicked' = [id |-> selected.id, text |-> sessionGameInput]
           /\ sessionGameInput' = selected.title
    /\ Hide
    /\ UNCHANGED <<acCopy, exceptAc>>

---------------------------------------------------------------------------
(* Claims about the status registry and the library page *)

\* the registry entry with this value
RegistryEntry(v) ==
    STATUS_TAXONOMY[CHOOSE i \in DOMAIN STATUS_TAXONOMY : STATUS_TAXONOMY[i].value = v]

\* C1: getStatusDefinition returns the registry entry whose value is the
\* lower-cased string form of the input, and null for every input whose
\* lower-cased string form is not one of the seven registry statuses.
C1_LookupIsRegistryEntryOrNull ==
    statusDef.called =>
        LET lowered == toLowerCase(JsToString(statusArg))
        IN  IF lowered \in RegistryValues
            THEN statusDef.result = RegistryEntry(lowered)
            ELSE statusDef.result = NullDef

\* C2: after renderLists every fetched game is in exactly one status list,
\* the list of its status when that is a registry value (in any letter
\* case) and the backlog list otherwise.
Occurrences(list, g) == Cardinality({i \in DOMAIN list : list[i] = g})

RECURSIVE SumOver(_, _)
SumOver(f, S) ==
    IF S = {} THEN 0
    ELSE LET x == CHOOSE y \in S : TRUE IN f[x] + SumOver(f, S \ {x})

C2_EveryGameInExactlyOneList ==
    libRendered =>
        \A i \in DOMAIN cachedGames :
            LET g == cachedGames[i]
                lowered == toLowerCase(JsToString(g.status))
                home == IF lowered \in RegistryValues THEN lowered ELSE S_backlog
            IN  /\ SumOver([s \in RegistryValues |-> Occurrences(grouped[s], g)],
                           RegistryValues) = 1
                /\ Occurrences(grouped[home], g) = 1

C2_Witness ==
    /\ libRendered
    /\ Len(cachedGames) >= 2
    /\ \E i \in DOMAIN cachedGames :
          /\ cachedGames[i].status = JsStr(S_constructor)
          /\ Occurrences(grouped[S_backlog], cachedGames[i]) = 1
    /\ \E i \in DOMAIN cachedGames :
          /\ cachedGames[i].status = JsStr(S_archived)
          /\ Occurrences(grouped[S_backlog], cachedGames[i]) = 1

\* C3: statusRequiresPurchase(v) is true exactly when getStatusDefinition(v)
\* is a registry entry with requiresPurchaseDate, which is exactly when that
\* entry's group is "owned"; it is false for wishlist and unknown values.
C3_RequiresPurchaseDerivedFromRegistry ==
    (statusDef.called /\ statusOwned.called) =>
        LET def == statusDef.result
        IN  /\ statusOwned.result <=>
                  (def.kind = "entry" /\ def.requiresPurchaseDate)
            /\ statusOwned.result <=> (def.kind = "entry" /\ def.group = "owned")
            /\ (def.kind # "entry" \/ def.value = S_wishlist) => ~statusOwned.result

C3_Witness ==
    /\ statusDef.called
    /\ statusOwned.called
    /\ statusArg = JsStr(Capitalize(S_story_clear))
    /\ statusOwned.result
    /\ statusDef.result.group = "owned"

---------------------------------------------------------------------------
(* Claims about the genre summary *)

RECURSIVE SumSeq(_, _)
SumSeq(f, n) == IF n = 0 THEN 0 ELSE f[n] + SumSeq(f, n - 1)

TotalWeightOfEntries(summary) ==
    SumSeq([i \in DOMAIN summary.genres |-> summary.genres[i].total.weight],
           Len(summary.genres))

NonBlankTagCount(game) ==
    Cardinality({i \in DOMAIN game.genres :
        \E j \in DOMAIN game.genres[i] : game.genres[i][j] \notin WhitespaceChars})

S_total == <<"t","o","t","a","l">>

\* a / b + c / d
FracAdd(x, y) == Frac(x.num * y.den + y.num * x.den, x.den * y.den)

RECURSIVE SumFracs(_, _)
SumFracs(f, n) == IF n = 0 THEN Frac(0, 1) ELSE FracAdd(SumFracs(f, n - 1), f[n])

ScopeMetrics(entry, scope) ==
    IF scope = S_total THEN entry.total ELSE entry.buckets[scope]

Scopes == Buckets \cup {S_total}

\* C5: in every scope (each bucket and the total) where some genre has
\* non-zero weight, each share is weight / (sum of all genres' weights in the
\* scope) and the shares of all genres sum to 1.
C5_SharesSumToOne ==
    genreOut.computed =>
        \A scope \in Scopes :
            LET gs == genreOut.summary.genres
                m == [i \in DOMAIN gs |-> ScopeMetrics(gs[i], scope)]
                scopeWeight == SumSeq([i \in DOMAIN gs |-> m[i].weight], Len(gs))
                sum == SumFracs([i \in DOMAIN gs |-> m[i].share], Len(gs))
            IN  (\E i \in DOMAIN gs : m[i].weight > 0) =>
                    /\ sum.den > 0
                    /\ sum.num = sum.den
                    /\ \A i \in DOMAIN gs :
                          m[i].share.num * scopeWeight = m[i].weight * m[i].share.den

C5_Witness ==
    /\ genreOut.computed
    /\ Len(genreOut.summary.genres) = 2
    /\ \E i \in DOMAIN genreGames : Len(genreGames[i].genres) = 2
    /\ genreOut.summary.genres[1].buckets[S_wishlist].weight > 0
    /\ genreOut.summary.genres[2].buckets[S_wishlist].weight > 0
    /\ genreOut.summary.genres[1].buckets[S_backlog].weight > 0
    /\ genreOut.summary.genres[1].total.share.num * 2 >
          genreOut.summary.genres[1].total.share.den

\* C6: dominant names the bucket holding the largest fraction of the genre's
\* weight exactly when that fraction exceeds 60%, and is "balanced"
\* otherwise; a named bucket is strictly heavier than every other bucket and
\* an exact 50/50 split between two buckets is "balanced".
C6_DominanceConsistent ==
    domOut.computed =>
        LET w == [b \in Buckets |-> domWeights[b].weight]
            total == SumNat(w, Buckets)
        IN  /\ \A b \in Buckets :
                  domOut.dominant = b <=>
                      /\ w[b] * 100 > 60 * total
                      /\ \A c \in Buckets : w[c] <= w[b]
            /\ (domOut.dominant # S_balanced) =>
                  \A c \in Buckets \ {domOut.dominant} : w[c] < w[domOut.dominant]
            /\ (\E b, c \in Buckets :
                    b # c /\ w[b] = w[c] /\ w[b] + w[c] = total)
                  => domOut.dominant = S_balanced
            /\ (\A b \in Buckets : w[b] * 100 <= 60 * total)
                  => domOut.dominant = S_balanced

C6_Witness ==
    /\ domOut.computed
    /\ domOut.dominant = S_wishlist
    /\ domWeights[S_wishlist].weight = 2
    /\ domWeights[S_backlog].weight = 1

---------------------------------------------------------------------------
(* Claims about the lifecycle statistics *)

\* a <= b for fractions with positive denominators
FracLeq(a, b) == a.den > 0 /\ b.den > 0 /\ a.num * b.den <= b.num * a.den

\* C7: for a stage with at least one sample, p25 <= median <= p75 <= p90.
C7_PercentilesMonotone ==
    (lifeStats.computed /\ lifeStats.statistics.count > 0) =>
        LET st == lifeStats.statistics
        IN  /\ FracLeq(st.percentiles.p25, st.median)
            /\ FracLeq(st.median, st.percentiles.p75)
            /\ FracLeq(st.percentiles.p75, st.percentiles.p90)

C7_Witness ==
    /\ lifeStats.computed
    /\ lifeSamples = <<4, 0, 3, 1>>
    /\ lifeStats.statistics.median = Frac(200, 100)
    /\ lifeStats.statistics.percentiles.p25 = Frac(75, 100)
    /\ lifeStats.statistics.percentiles.p90 = Frac(370, 100)

---------------------------------------------------------------------------
(* Claims about the engagement summary *)

DaysInMonth2024 == <<31, 29, 31, 30>>

\* one period width from this period start: 7 days, or the length of the
\* calendar month that starts there (0 when no month starts there)
WidthAt(start) ==
    IF periodKind = "weekly" THEN 7
    ELSE IF \E m \in DOMAIN DaysInMonth2024 : SumSeq(DaysInMonth2024, m - 1) = start
         THEN DaysInMonth2024[CHOOSE m \in DOMAIN DaysInMonth2024 :
                                 SumSeq(DaysInMonth2024, m - 1) = start]
         ELSE 0

\* C9: the period list is chronological without gaps: consecutive
\* period_start values are exactly one period width apart (7 days, or one
\* calendar month), every counted session falls in a listed period, and a
\* listed period no session falls in has total_minutes = 0.
C9_TimelineContinuous ==
    engagement.computed =>
        LET t == engagement.summary.timeline
            counted == {i \in DOMAIN sessions : sessions[i].playtime_minutes > 0}
            Within(i, k) ==
                /\ t[k].period_start <= sessions[i].session_date
                /\ sessions[i].session_date < t[k].period_start + WidthAt(t[k].period_start)
        IN  /\ \A k \in 1..(Len(t) - 1) :
                  /\ WidthAt(t[k].period_start) > 0
                  /\ t[k + 1].period_start =
                        t[k].period_start + WidthAt(t[k].period_start)
            /\ \A i \in counted : \E k \in DOMAIN t : Within(i, k)
            /\ \A k \in DOMAIN t :
                  (\A i \in counted : ~Within(i, k)) => t[k].total_minutes = 0
            /\ (counted # {}) => Len(t) > 0

C9_Witness ==
    /\ engagement.computed
    /\ periodKind = "monthly"
    /\ Len(engagement.summary.timeline) = 3
    /\ engagement.summary.timeline[2].period_start = 31
    /\ engagement.summary.timeline[2].total_minutes = 0
    /\ engagement.summary.timeline[3].total_minutes > 0

\* C10: a spike callout exists for a period exactly when, against the
\* closest earlier period with minutes, percent change >= +50% and the
\* change exceeds 60 minutes; it carries that percent_change and
\* change_minutes.
C10_SpikeExactlyWhenThresholdsMet ==
    engagement.computed =>
        LET t == engagement.summary.timeline
            c == engagement.summary.callouts
        IN  \A k \in DOMAIN t :
                LET earlier == {j \in 1..(k - 1) : t[j].total_minutes > 0}
                    spikes == {n \in DOMAIN c :
                                  c[n].type = "spike"
                                  /\ c[n].period_start = t[k].period_start}
                IN  IF earlier = {}
                    THEN spikes = {}
                    ELSE LET j == CHOOSE x \in earlier : \A y \in earlier : y <= x
                             change == t[k].total_minutes - t[j].total_minutes
                         IN  IF 2 * change >= t[j].total_minutes /\ change > 60
                             THEN /\ Cardinality(spikes) = 1
                                  /\ \A n \in spikes :
                                        /\ c[n].change_minutes = change
                                        /\ c[n].percent_change.den > 0
                                        /\ c[n].percent_change.num * t[j].total_minutes
                                              = change * c[n].percent_change.den
                             ELSE spikes = {}

\* 100 minutes, an empty period, then 200 minutes: a spike of +100 minutes, +100%
C10_Witness ==
    /\ engagement.computed
    /\ Len(engagement.summary.timeline) = 3
    /\ engagement.summary.timeline[1].total_minutes = 100
    /\ engagement.summary.timeline[2].total_minutes = 0
    /\ engagement.summary.timeline[3].total_minutes = 200
    /\ \E n \in DOMAIN engagement.summary.callouts :
          LET c == engagement.summary.callouts[n]
          IN  /\ c.type = "spike"
              /\ c.period_start = engagement.summary.timeline[3].period_start
              /\ c.change_minutes = 100
              /\ c.percent_change.num = c.percent_change.den

---------------------------------------------------------------------------
(* Claims about the aggregation as a whole *)

---------------------------------------------------------------------------
(* Claims about the display formatters *)

PlaceholderOf(name) ==
    IF name = "formatAverageElo" THEN AVG_ELO_DASH ELSE DASH

FormatArgsFinite ==
    /\ fmtCall.first.type = "number"
    /\ fmtCall.name = "formatDaysRange" => fmtCall.second.type = "number"

\* C14: no formatter throws; each returns its placeholder text for every
\* non-finite input (NaN, null, undefined, infinite) and a numeric text
\* only when its input is finite.
C14_FormattersTotalOnUndefinedMetrics ==
    fmtCall.name # "none" =>
        /\ fmtOut.kind # "TypeError"
        /\ ~FormatArgsFinite => fmtOut = Placeholder(PlaceholderOf(fmtCall.name))
        /\ FormatArgsFinite => fmtOut.kind = "numeric"

C14_Witness ==
    /\ fmtCall.name = "formatDaysRange"
    /\ fmtCall.first = Num(4)
    /\ fmtCall.second = NullMetric
    /\ fmtOut = Placeholder(DASH)

---------------------------------------------------------------------------
(* Claims about the lifecycle summary and its rendering *)

StageEnds ==
    [purchase_to_start |-> <<"purchase_date", "start_date">>,
     start_to_finish |-> <<"start_date", "finish_date">>,
     purchase_to_finish |-> <<"purchase_date", "finish_date">>]

\* the games with both dates of the stage present and in order
Contributors(stage) ==
    {i \in DOMAIN lifeGames :
        LET from == lifeGames[i][StageEnds[stage][1]]
            to == lifeGames[i][StageEnds[stage][2]]
        IN  from # NoDate /\ to # NoDate /\ to >= from}

WholeDays(stage) ==
    [i \in DOMAIN lifeGames |->
        lifeGames[i][StageEnds[stage][2]] - lifeGames[i][StageEnds[stage][1]]]

\* C11: for each stage the samples are exactly the games with both dates
\* present and in order, each with the whole-day difference as its
\* duration; a game with the dates out of order is left out.
C11_SampleIffDatesPresentAndOrdered ==
    lifecycleSummary.fetched =>
        \A stage \in DOMAIN StageEnds :
            LET stats == lifecycleSummary.summary[stage].statistics
                who == Contributors(stage)
            IN  /\ stats.count = Cardinality(who)
                /\ who # {} =>
                      stats.mean = Frac(SumOver(WholeDays(stage), who),
                                        Cardinality(who))

\* purchase 2024-01-01, start 2024-01-11 gives the one sample of 10 days,
\* next to a game purchased after it was started
C11_Witness ==
    /\ lifecycleSummary.fetched
    /\ Len(lifeGames) = 2
    /\ lifeGames[1].purchase_date = 0 /\ lifeGames[1].start_date = 10
    /\ lifeGames[2].purchase_date = 75 /\ lifeGames[2].start_date = 10
    /\ lifecycleSummary.summary.purchase_to_start.statistics.count = 1
    /\ lifecycleSummary.summary.purchase_to_start.statistics.mean = Frac(10, 1)

\* C19: every aging-backlog row shows max(raw days waiting, 0), the raw
\* value in the summary stays today - purchase date, and the rows are the
\* entries in the order received, which is descending by raw days waiting.
C19_ClampOnlyForDisplay ==
    lifecycleView.rendered =>
        LET list == lifecycleSummary.summary.aging_backlog
            rows == lifecycleView.agingRows
        IN  /\ Len(rows) = Len(list)
            /\ \A i \in DOMAIN list :
                  /\ rows[i].id = list[i].id
                  /\ rows[i].days.kind = "numeric"
                  /\ rows[i].days.tenths =
                        10 * (IF list[i].days_waiting < 0 THEN 0
                              ELSE list[i].days_waiting)
                  /\ list[i].days_waiting =
                        today - lifeGames[list[i].id].purchase_date
            /\ \A i, j \in DOMAIN list :
                  i < j => list[i].days_waiting >= list[j].days_waiting

C19_Witness ==
    /\ lifecycleView.rendered
    /\ Len(lifecycleView.agingRows) = 2
    /\ lifecycleSummary.summary.aging_backlog[1].days_waiting = 70
    /\ lifecycleSummary.summary.aging_backlog[2].days_waiting = -5
    /\ lifecycleView.agingRows[2].days = Numeric("", 0, " days")

---------------------------------------------------------------------------
(* Claims about the session form *)

---------------------------------------------------------------------------
(* Claims about the genre section *)

ShownItems ==
    {genreView.top[i] : i \in DOMAIN genreView.top}
    \cup {genreView.bottom[i] : i \in DOMAIN genreView.bottom}

BucketsOfGenre(genre) ==
    LET genres == GenresOf(genreBody.body)
        entry == genres[CHOOSE i \in DOMAIN genres : genres[i].genre = genre]
    IN  {entry.buckets[i] : i \in DOMAIN entry.buckets}

Shown(item) ==
    [i \in DOMAIN item.breakdown.pieces |-> item.breakdown.pieces[i].bucket]

\* C17: the order of a genre's buckets in its breakdown is decided by the
\* weights and, between equal weights, by the position in the declared
\* bucket order (absent buckets last), never by the order of the keys in
\* the entry's bucket map: two genres with the same buckets and metrics
\* show their buckets in the same order.
C17_TiesFollowDeclarationOrder ==
    genreView.state = "content" =>
        \A x \in ShownItems, y \in ShownItems :
            BucketsOfGenre(x.genre) = BucketsOfGenre(y.genre)
                => Shown(x) = Shown(y)

---------------------------------------------------------------------------
(* Claims about what rendering leaves untouched *)

\* C15: no render, grouping, sort or toggle changes the records it is
\* given: the fetched genre summary keeps its elements, order and values,
\* the cached game list only ever changes by being replaced with a newly
\* fetched response, and the list an earlier caller holds stays as it was.
C15_RendersMutateNothing ==
    [][/\ genreBody.fetched => genreBody' = genreBody
       /\ cachedGames' # cachedGames => (libPc = "fetching" /\ cachedGames' = libResp)
       /\ heldGames.held => heldGames'.games = heldGames.games]_vars

\* the library was re-rendered from a longer response while a caller held
\* the earlier list, and the genre lists were re-ranked by a toggle
C15_Witness ==
    /\ heldGames.held
    /\ ~heldGames.aliased
    /\ Len(cachedGames) > Len(heldGames.games)
    /\ \E s \in RegistryValues :
          Len(grouped[s]) = 2 /\ grouped[s] # cachedGames
    /\ genreView.state = "content"
    /\ genreView.activeMetric = "average_elo"
    /\ Len(genreView.top) = 2
    /\ genreView.top[1].genre # GenresOf(genreBody.body)[1].genre

---------------------------------------------------------------------------
(* Claims about the genre-sentiment section *)

\* C18: the gap shown for a genre is a function of its interest score and
\* its weighted sentiment alone: entries equal in both get the same gap,
\* the gap is interest minus enjoyment (8 points or more: hype, -8 or
\* less: enjoyment, otherwise aligned), and no gap is computed unless both
\* scores are finite numbers.
C18_GapFromInterestAndEnjoyment ==
    sentimentView.state = "content" =>
        LET genres == sentimentBody.body.genres
            items == sentimentView.items
        IN  /\ Len(items) = Len(genres)
            /\ \A i \in DOMAIN genres :
                  LET interest == genres[i].interest_score
                      enjoyment == genres[i].weighted_sentiment
                      gap == items[i].gap
                  IN  IF interest.type = "number" /\ enjoyment.type = "number"
                      THEN LET delta == interest.quarters - enjoyment.quarters
                           IN  /\ gap.kind = "hype" <=> delta >= 32
                               /\ gap.kind = "enjoyment" <=> delta <= -32
                               /\ gap.kind = "aligned" <=> (delta > -32 /\ delta < 32)
                               /\ gap.kind # "aligned" =>
                                     /\ 4 * gap.magnitude - 2 <= Abs(delta)
                                     /\ Abs(delta) < 4 * gap.magnitude + 2
                      ELSE gap.kind = "none"
            /\ \A i, j \in DOMAIN genres :
                  (/\ genres[i].interest_score = genres[j].interest_score
                   /\ genres[i].weighted_sentiment = genres[j].weighted_sentiment)
                      => items[i].gap = items[j].gap

\* two genres with 68 against 60 and otherwise different data both show
\* "hype outpaces enjoyment by 8"
C18_Witness ==
    /\ sentimentView.state = "content"
    /\ Len(sentimentView.items) = 2
    /\ sentimentView.items[1].genre # sentimentView.items[2].genre
    /\ sentimentView.items[1].chips # sentimentView.items[2].chips
    /\ sentimentView.items[1].gap = [kind |-> "hype", magnitude |-> 8]
    /\ sentimentView.items[2].gap = [kind |-> "hype", magnitude |-> 8]

---------------------------------------------------------------------------
(* Claims about the insights page *)

\* the responses are all in, and each carries an empty or a missing body
AllResponsesEmpty ==
    \A e \in Endpoints :
        /\ responses[e].status = "ok"
        /\ responses[e].kind \in {"missing", "empty"}

\* the summaries of empty collections have zero-length lists and no samples
EmptySummariesWellFormed ==
    LET out == Aggregation(EmptyAccumulator, <<>>, <<>>, "monthly", today)
    IN  /\ Len(out.genres.genres) = 0
        /\ Len(out.engagement.timeline) = 0
        /\ Len(out.engagement.callouts) = 0
        /\ Len(out.lifecycle.aging_backlog) = 0
        /\ \A stage \in {out.lifecycle.purchase_to_start,
                         out.lifecycle.start_to_finish,
                         out.lifecycle.purchase_to_finish} :
              stage.statistics.count = 0
        /\ Len(GenresOf(GenrePageBody("empty"))) = 0
        /\ Len(SentimentGenresOf(SentimentPageBody("empty"))) = 0
        /\ LifecyclePageBody("empty").summary = out.lifecycle
        /\ EngagementPageBody("empty").summary = out.engagement

\* C13: when the four summaries come back empty (or without their lists),
\* the summaries are well-formed with zero-length lists, every section of
\* the insights page shows its empty-state placeholder, and the page ends
\* in state "loaded", not "error".
C13_EmptySummariesShowPlaceholders ==
    (pageState \in {"loaded", "error"} /\ AllResponsesEmpty) =>
        /\ EmptySummariesWellFormed
        /\ pageState = "loaded"
        /\ sections.engagement = Section("loaded", TrendView("empty", 0))
        /\ sections.callouts = Section("loaded", [state |-> "empty", cards |-> <<>>])
        /\ sections.genre = Section("loaded", EmptyGenreView)
        /\ sections.sentiment.state = "loaded"
        /\ sections.sentiment.view = [state |-> "empty", items |-> <<>>]
        /\ sections.lifecycle.state = "loaded"
        /\ sections.lifecycle.view.avgToStart = "placeholder"
        /\ sections.lifecycle.view.avgToFinish = "placeholder"
        /\ sections.lifecycle.view.avgPurchaseToFinish = "placeholder"
        /\ sections.lifecycle.view.durations = "empty"
        /\ sections.lifecycle.view.agingEmpty
        /\ sections.lifecycle.view.agingRows = <<>>
        /\ sections.playtimeCard = "placeholder"

\* the page has loaded from bodies of which some are empty summaries and
\* some lack their lists altogether
C13_Witness ==
    /\ pageState = "loaded"
    /\ AllResponsesEmpty
    /\ \E e \in Endpoints : responses[e].kind = "missing"
    /\ \E e \in Endpoints : responses[e].kind = "empty"
    /\ sections.engagement.view.state = "empty"

\* C16: the four summaries are independent: once the page has settled, a
\* section whose own summary arrived shows that summary, whatever happened
\* to the other three.
C16_SectionFollowsOwnSummary ==
    pageState \in {"loaded", "error"} =>
        \A s \in SectionNames :
            responses[EndpointOf(s)].status = "ok" => sections[s].state = "loaded"

---------------------------------------------------------------------------
(* Claims about the colour cache *)

\* two keys that differ in case only
SameKey(a, b) == toLowerCase(a) = toLowerCase(b)

\* C20: the colour cache is a stable first-appearance mapping: a call with
\* an empty or missing key returns the "other" colour and changes neither
\* the cache nor the palette index; a call with a key seen before, in any
\* case, returns the colour of its first call and changes nothing; a call
\* with the k-th distinct key returns palette entry (k-1) mod 8 and keeps
\* every earlier entry.
C20_StableFirstAppearanceColours ==
    [][LET key == lastKey'
           size == Cardinality(DOMAIN engagementColorMap)
       IN  IF key.type \in {"null", "undefined"}
              \/ (key.type = "string" /\ key.str = <<>>)
              \/ (key.type = "number" /\ key.num = 0)
           THEN /\ lastColor' = ENGAGEMENT_OTHER_COLOR
                /\ engagementColorMap' = engagementColorMap
                /\ engagementPaletteIndex' = engagementPaletteIndex
           ELSE /\ \A k \in DOMAIN engagementColorMap :
                      /\ k \in DOMAIN engagementColorMap'
                      /\ engagementColorMap'[k] = engagementColorMap[k]
                /\ engagementPaletteIndex' = Cardinality(DOMAIN engagementColorMap')
                /\ IF \E k \in DOMAIN engagementColorMap : SameKey(k, key.str)
                   THEN /\ engagementColorMap' = engagementColorMap
                        /\ \A k \in DOMAIN engagementColorMap :
                              SameKey(k, key.str) =>
                                  lastColor' = engagementColorMap[k]
                   ELSE /\ Cardinality(DOMAIN engagementColorMap') = size + 1
                        /\ lastColor' = ENGAGEMENT_PALETTE[(size % 8) + 1]
                        /\ \E k \in DOMAIN engagementColorMap' :
                              /\ SameKey(k, key.str)
                              /\ engagementColorMap'[k] = lastColor'
      ]_vars

\* nine titles have a colour, the ninth shares the first palette entry with
\* the first, and the last call asked for a title in upper case
C20_Witness ==
    /\ engagementPaletteIndex = 9
    /\ Cardinality({k \in DOMAIN engagementColorMap :
                       engagementColorMap[k] = ENGAGEMENT_PALETTE[1]}) = 2
    /\ lastKey.type = "string"
    /\ lastKey.str # toLowerCase(lastKey.str)
    /\ lastColor = ENGAGEMENT_PALETTE[1]

---------------------------------------------------------------------------
(* Claims about the game forms *)

\* the status is one of those that need a purchase date
NeedsPurchaseDate(status) == toLowerCase(status) \in OWNED_STATUS_SET

\* no purchase date: absent, null or blank
EmptyPurchaseDate(v) ==
    \/ v.type \in {"null", "undefined"}
    \/ (v.type = "string" /\ trim(v.str) = <<>>)

\* the status the form submits: the add form lower-cases and defaults it
SubmittedStatus ==
    IF gameForm.kind = "add"
    THEN toLowerCase(trim(IF gameForm.status = <<>> THEN S_backlog
                          ELSE gameForm.status))
    ELSE gameForm.status

\* C21: no form sends a create or update request whose status requires a
\* purchase date while the purchase date is empty; a submit with a title,
\* such a status and no purchase date sends nothing and shows the
\* validation message.
C21_NoOwnedRequestWithoutPurchaseDate ==
    /\ gameRequest.state # "none" =>
          ~(NeedsPurchaseDate(gameRequest.status)
            /\ EmptyPurchaseDate(gameRequest.purchase_date))
    /\ (/\ gameMessage # ""
        /\ trim(gameForm.title) # <<>>
        /\ NeedsPurchaseDate(SubmittedStatus)
        /\ trim(gameForm.purchase) = <<>>)
          => (gameRequest.state = "none" /\ gameMessage = PURCHASE_REQUIRED)

\* the add form was submitted with a title-cased status that needs a
\* purchase date and a blank purchase date, and was refused
C21_Witness ==
    /\ gameMessage = PURCHASE_REQUIRED
    /\ gameForm.purchase = <<" ">>
    /\ gameForm.kind = "add"
    /\ gameForm.status = Capitalize(S_playing)

---------------------------------------------------------------------------
(* Claims about overlapping library fetches *)

\* C22: once all overlapping fetchAndCacheGames requests have completed,
\* state.cachedGames holds the response of the request issued last.
C22_CacheHoldsLastIssuedResponse ==
    (/\ Len(gamesRequests) > 0
     /\ \A i \in DOMAIN gamesRequests : gamesRequests[i].state = "done")
        => cachedGames = gamesRequests[Len(gamesRequests)].games

---------------------------------------------------------------------------
(* Claims about the add-game page *)

\* what a Steam lookup's response can change
SteamShown == <<titleInput, titleAutofilled, steamPreview, steamStatus>>

\* C23: the response of a Steam lookup that was superseded (a later lookup
\* was started, or the App ID field was emptied, after it began) changes
\* neither the title nor the preview nor the status text.
C23_SupersededLookupChangesNothing ==
    [][\A l \in InFlight(steamLookups) :
          (l \notin InFlight(steamLookups') /\ l.superseded)
              => SteamShown' = SteamShown]_vars

\* the response of a superseded lookup for one App ID has come and gone
\* while the details of the other App ID are shown
C23_Witness ==
    \E l \in steamLookups :
        /\ l.state = "ignored"
        /\ l.superseded
        /\ steamPreview.kind = "details"
        /\ steamPreview.appId # l.appId
        /\ titleInput = Title(SteamName(steamPreview.appId), "autofill")

\* C24: after a successful submit has reset the form, and until the user
\* enters a new App ID, the preview and the status text stay at their
\* defaults and autofill writes no title.
C24_NothingRepopulatesAfterReset ==
    addGamePost.resetSince =>
        /\ steamPreview = DefaultPreview
        /\ steamStatus = "default"
        /\ titleInput.writer # "autofill"

\* C25, as stated: autofill replaces the title only when the title field is
\* empty or holds what autofill wrote.
C25_AutofillOnlyOverEmptyOrAutofilled ==
    [][(titleInput' # titleInput /\ titleInput'.writer = "autofill")
          => (titleInput.text = <<>> \/ titleInput.writer = "autofill")]_vars

\* C25, amended: autofill replaces the title only when the title field is
\* empty or blank (whitespace only), or holds what autofill wrote and the
\* user has not edited since.
C25_AutofillOnlyOverBlankOrAutofilled ==
    [][(titleInput' # titleInput /\ titleInput'.writer = "autofill")
          => (trim(titleInput.text) = <<>> \/ titleInput.writer = "autofill")]_vars

\* two lookups were applied one after the other, and the name of the
\* second replaced the name the first had filled in
C25_Witness ==
    /\ titleAutofilled
    /\ \E first, second \in steamLookups :
          /\ first.state = "applied"
          /\ second.state = "applied"
          /\ first.token < second.token
          /\ first.appId # second.appId
          /\ titleInput = Title(SteamName(second.appId), "autofill")

SelectionUnderWay(requests, status) ==
    \E r \in requests : r.owner = "select" /\ r.status = status

\* C26 as stated: on either page at most one comparison request is in
\* flight at any time, and a submitting flag is set only while its
\* selection is still under way.
C26_OneComparisonInFlight ==
    /\ Cardinality(InFlightKind(rankRequests \cup panelRequests, "compare")) <= 1
    /\ submitting => \E r \in rankRequests : r.owner = "select"
    /\ \A status \in RankStatuses :
          pairState[status].submitting => SelectionUnderWay(panelRequests, status)

\* C26 amended: at most one comparison request is in flight per matchup
\* panel (the rankings page has one panel, the combined page one per
\* status), and a submitting flag is set only while its selection is still
\* under way, so it is false again once the selection has finished.
C26_OneComparisonInFlightPerPanel ==
    /\ Cardinality(InFlightKind(rankRequests, "compare")) <= 1
    /\ \A status \in RankStatuses :
          Cardinality({r \in InFlightKind(panelRequests, "compare") :
                          r.status = status}) <= 1
    /\ submitting => \E r \in rankRequests : r.owner = "select"
    /\ \A status \in RankStatuses :
          pairState[status].submitting => SelectionUnderWay(panelRequests, status)

\* both panels of the combined page have a comparison request in flight
C26_Witness ==
    \A status \in RankStatuses :
        /\ pairState[status].submitting
        /\ \E r \in InFlightKind(panelRequests, "compare") : r.status = status

\* C27: on the rankings page loadingPair is true whenever a pair request is
\* still in flight, also when forced loads overlap.
C27_LoadingWhilePairInFlight ==
    InFlightKind(rankRequests, "pair") # {} => loadingPair

\* C28: once every request of the rankings page has completed, the ranking
\* list shown (unless it shows its error) and the matchup shown belong to
\* the selected status.
C28_ShownBelongsToSelectedStatus ==
    (rankIssued > 0 /\ rankRequests = {})
        => /\ rankingShown \in {rankSelected, "error"}
           /\ pairShown.kind = "pair" => pairShown.status = rankSelected

\* C29: the insights page state moves from "loading" to exactly one of
\* "loaded" and "error" and never changes afterwards; it is "loaded" only
\* if all four requests succeeded and every section rendered; once a
\* request has failed or a renderer has thrown it is "error" and each of
\* the five sections shows its error message.
C29_PageSettlesOnce ==
    /\ [][/\ pageState \in {"loaded", "error"} => pageState' = pageState
          /\ (pageState = "loading" /\ pageState' # pageState)
                => pageState' \in {"loaded", "error"}]_vars
    /\ [](pageState = "loaded" =>
             /\ \A e \in Endpoints : /\ responses[e].status = "ok"
                                     /\ responses[e].kind # "malformed"
             /\ \A s \in SectionNames : sections[s].state = "loaded")
    /\ [](pageState = "error" =>
             /\ \/ \E e \in Endpoints : responses[e].status = "failed"
                \/ \E e \in Endpoints : responses[e].kind = "malformed"
             /\ \A s \in SectionNames : sections[s].state = "error")

\* a renderer threw after the engagement, callouts and genre sections had
\* been rendered, and all five sections show their error message
C29_Witness ==
    /\ pageState = "error"
    /\ \A e \in Endpoints : responses[e].status = "ok"
    /\ responses["sentiment"].kind = "malformed"
    /\ sections.genre.view # InitialSections.genre.view
    /\ \A s \in SectionNames : sections[s].state = "error"

\* C30: in the session game autocomplete the highlight index lies between
\* -1 and the number of matches for the field's current text minus 1, and
\* a game picked with Enter is among the matches for the text the field
\* held when Enter was pressed.
C30_EnterPicksAmongCurrentMatches ==
    /\ sessionGameHighlightIndex \in -1..(Len(MatchesFor(sessionGameInput)) - 1)
    /\ sessionGamePicked.id # 0 =>
          \E i \in DOMAIN MatchesFor(sessionGamePicked.text) :
              MatchesFor(sessionGamePicked.text)[i].id = sessionGamePicked.id

---------------------------------------------------------------------------
(* Specifications *)

Init == StatusIdle /\ LibInit /\ GenreInit /\ DomIdle /\ LifeInit /\ EngIdle /\ AggIdle /\ ColorInit /\ AutocompleteIdle /\ PanelIdle /\ RankIdle /\ SteamIdle /\ FetchIdle /\ GameFormIdle /\ ColorCallIdle /\ PageIdle /\ SentimentIdle /\ GenreViewIdle /\ SessIdle /\ StageIdle /\ FmtIdle

Next ==
    \/ ServerAddGame
    \/ RenderListsStart
    \/ RenderListsFinish

Spec == Init /\ [][Next]_vars

InitStatus == StatusInit /\ LibInit /\ GenreInit /\ DomIdle /\ LifeInit /\ EngIdle /\ AggIdle /\ ColorInit /\ AutocompleteIdle /\ PanelIdle /\ RankIdle /\ SteamIdle /\ FetchIdle /\ GameFormIdle /\ ColorCallIdle /\ PageIdle /\ SentimentIdle /\ GenreViewIdle /\ SessIdle /\ StageIdle /\ FmtIdle

NextStatus ==
    \/ CallGetStatusDefinition
    \/ CallStatusRequiresPurchase

SpecStatus == InitStatus /\ [][NextStatus]_vars

InitGenre == StatusIdle /\ LibInit /\ GenreInit /\ DomIdle /\ LifeInit /\ EngIdle /\ AggIdle /\ ColorInit /\ AutocompleteIdle /\ PanelIdle /\ RankIdle /\ SteamIdle /\ FetchIdle /\ GameFormIdle /\ ColorCallIdle /\ PageIdle /\ SentimentIdle /\ GenreViewIdle /\ SessIdle /\ StageIdle /\ FmtIdle

NextGenre ==
    \/ GenreAddGame
    \/ ComputeGenreSummary

SpecGenre == InitGenre /\ [][NextGenre]_vars

InitDominance == StatusIdle /\ LibInit /\ GenreInit /\ DomInit /\ LifeInit /\ EngIdle /\ AggIdle /\ ColorInit /\ AutocompleteIdle /\ PanelIdle /\ RankIdle /\ SteamIdle /\ FetchIdle /\ GameFormIdle /\ ColorCallIdle /\ PageIdle /\ SentimentIdle /\ GenreViewIdle /\ SessIdle /\ StageIdle /\ FmtIdle

NextDominance == ClassifyDominance

SpecDominance == InitDominance /\ [][NextDominance]_vars

InitLifecycle == StatusIdle /\ LibInit /\ GenreInit /\ DomIdle /\ LifeInit /\ EngIdle /\ AggIdle /\ ColorInit /\ AutocompleteIdle /\ PanelIdle /\ RankIdle /\ SteamIdle /\ FetchIdle /\ GameFormIdle /\ ColorCallIdle /\ PageIdle /\ SentimentIdle /\ GenreViewIdle /\ SessIdle /\ StageIdle /\ FmtIdle

NextLifecycle ==
    \/ LifeAddSample
    \/ ComputeStageStatistics

SpecLifecycle == InitLifecycle /\ [][NextLifecycle]_vars

InitEngagement ==
    /\ StatusIdle /\ LibInit /\ GenreInit /\ DomIdle /\ LifeInit /\ EngInit
    /\ AggIdle /\ ColorInit /\ AutocompleteIdle /\ PanelIdle /\ RankIdle /\ SteamIdle /\ FetchIdle /\ GameFormIdle /\ ColorCallIdle /\ PageIdle /\ SentimentIdle /\ GenreViewIdle /\ SessIdle /\ StageIdle /\ FmtIdle

NextEngagement ==
    \/ LogSession
    \/ ComputeEngagement

SpecEngagement == InitEngagement /\ [][NextEngagement]_vars

InitAggregation ==
    /\ StatusIdle /\ LibInit /\ DomIdle /\ LifeInit /\ SnapshotInit
    /\ AggIdle /\ ColorInit /\ AutocompleteIdle /\ PanelIdle /\ RankIdle /\ SteamIdle /\ FetchIdle /\ GameFormIdle /\ ColorCallIdle /\ PageIdle /\ SentimentIdle /\ GenreViewIdle /\ SessIdle /\ StageIdle /\ FmtIdle

NextAggregation ==
    \/ AggregateFirst
    \/ AggregateSecond
    \/ ClockTick
    \/ GetEngagementColor
    \/ ComputeGenreSummary

SpecAggregation == InitAggregation /\ [][NextAggregation]_vars

InitFormat == StatusIdle /\ LibInit /\ GenreInit /\ DomIdle /\ LifeInit /\ EngIdle /\ AggIdle /\ ColorInit /\ AutocompleteIdle /\ PanelIdle /\ RankIdle /\ SteamIdle /\ FetchIdle /\ GameFormIdle /\ ColorCallIdle /\ PageIdle /\ SentimentIdle /\ GenreViewIdle /\ SessIdle /\ StageIdle /\ FmtIdle

NextFormat ==
    \/ CallFormatDays
    \/ CallFormatDaysRange
    \/ CallFormatPercent
    \/ CallFormatAverageElo
    \/ CallFormatScorePoints
    \/ CallFormatSentimentValue

SpecFormat == InitFormat /\ [][NextFormat]_vars

InitLifecyclePage == StatusIdle /\ LibInit /\ GenreInit /\ DomIdle /\ LifeInit /\ EngIdle /\ AggIdle /\ ColorInit /\ AutocompleteIdle /\ PanelIdle /\ RankIdle /\ SteamIdle /\ FetchIdle /\ GameFormIdle /\ ColorCallIdle /\ PageIdle /\ SentimentIdle /\ GenreViewIdle /\ SessIdle /\ StageIdle /\ FmtIdle

NextLifecyclePage ==
    \/ StageAddGame
    \/ FetchLifecycle
    \/ RenderLifecycleSummary

SpecLifecyclePage == InitLifecyclePage /\ [][NextLifecyclePage]_vars

InitSessionForm == StatusIdle /\ LibInit /\ GenreInit /\ DomIdle /\ LifeInit /\ EngIdle /\ AggIdle /\ ColorInit /\ AutocompleteIdle /\ PanelIdle /\ RankIdle /\ SteamIdle /\ FetchIdle /\ GameFormIdle /\ ColorCallIdle /\ PageIdle /\ SentimentIdle /\ GenreViewIdle /\ SessIdle /\ StageIdle /\ FmtIdle

NextSessionForm ==
    \/ SessAddGame
    \/ FillSessionForm
    \/ SubmitSession
    \/ SubmitSessionDatalist

SpecSessionForm == InitSessionForm /\ [][NextSessionForm]_vars

InitGenreView == StatusIdle /\ LibInit /\ GenreInit /\ DomIdle /\ LifeInit /\ EngIdle /\ AggIdle /\ ColorInit /\ AutocompleteIdle /\ PanelIdle /\ RankIdle /\ SteamIdle /\ FetchIdle /\ GameFormIdle /\ ColorCallIdle /\ PageIdle /\ SentimentIdle /\ GenreViewIdle /\ SessIdle /\ StageIdle /\ FmtIdle

NextGenreView ==
    \/ FetchGenreBody
    \/ RenderGenreInsights
    \/ ToggleMetric
    \/ ToggleBucket

SpecGenreView == InitGenreView /\ [][NextGenreView]_vars

FetchSampleGenreBody == FetchGenreBodyFrom(SampleGenreBodies)

InitFrames == StatusIdle /\ LibInit /\ GenreInit /\ DomIdle /\ LifeInit /\ EngIdle /\ AggIdle /\ ColorInit /\ AutocompleteIdle /\ PanelIdle /\ RankIdle /\ SteamIdle /\ FetchIdle /\ GameFormIdle /\ ColorCallIdle /\ PageIdle /\ SentimentIdle /\ GenreViewIdle /\ SessIdle /\ StageIdle /\ FmtIdle

NextFrames ==
    \/ ServerAddBacklogGame
    \/ HoldCachedGames
    \/ RenderListsStart
    \/ RenderListsFinish
    \/ FetchSampleGenreBody
    \/ RenderGenreInsights
    \/ ToggleMetric
    \/ ToggleBucket

SpecFrames == InitFrames /\ [][NextFrames]_vars

InitSentiment == StatusIdle /\ LibInit /\ GenreInit /\ DomIdle /\ LifeInit /\ EngIdle /\ AggIdle /\ ColorInit /\ AutocompleteIdle /\ PanelIdle /\ RankIdle /\ SteamIdle /\ FetchIdle /\ GameFormIdle /\ ColorCallIdle /\ PageIdle /\ SentimentIdle /\ GenreViewIdle /\ SessIdle /\ StageIdle /\ FmtIdle

NextSentiment ==
    \/ FetchSentimentBody
    \/ RenderGenreSentimentComparison

SpecSentiment == InitSentiment /\ [][NextSentiment]_vars

InitInsightsPage == StatusIdle /\ LibInit /\ GenreInit /\ DomIdle /\ LifeInit /\ EngIdle /\ AggIdle /\ ColorInit /\ AutocompleteIdle /\ PanelIdle /\ RankIdle /\ SteamIdle /\ FetchIdle /\ GameFormIdle /\ ColorCallIdle /\ PageIdle /\ SentimentIdle /\ GenreViewIdle /\ SessIdle /\ StageIdle /\ FmtIdle

NextInsightsPage ==
    \/ InsightsStart
    \/ ResponseOk
    \/ ResponseFailed
    \/ InsightsRendered
    \/ InsightsFailed

SpecInsightsPage == InitInsightsPage /\ [][NextInsightsPage]_vars

InitColor == StatusIdle /\ LibInit /\ GenreInit /\ DomIdle /\ LifeInit /\ EngIdle /\ AggIdle /\ ColorInit /\ AutocompleteIdle /\ PanelIdle /\ RankIdle /\ SteamIdle /\ FetchIdle /\ GameFormIdle /\ ColorCallIdle /\ PageIdle /\ SentimentIdle /\ GenreViewIdle /\ SessIdle /\ StageIdle /\ FmtIdle

NextColor == CallGetEngagementColor

SpecColor == InitColor /\ [][NextColor]_vars

InitGameForm == StatusIdle /\ LibInit /\ GenreInit /\ DomIdle /\ LifeInit /\ EngIdle /\ AggIdle /\ ColorInit /\ AutocompleteIdle /\ PanelIdle /\ RankIdle /\ SteamIdle /\ FetchIdle /\ GameFormIdle /\ ColorCallIdle /\ PageIdle /\ SentimentIdle /\ GenreViewIdle /\ SessIdle /\ StageIdle /\ FmtIdle

NextGameForm ==
    \/ FillGameForm
    \/ SubmitAddGame
    \/ SubmitCardEdit
    \/ SubmitDetailEdit
    \/ GameRequestSettles

SpecGameForm == InitGameForm /\ [][NextGameForm]_vars

InitFetch == StatusIdle /\ LibInit /\ GenreInit /\ DomIdle /\ LifeInit /\ EngIdle /\ AggIdle /\ ColorInit /\ AutocompleteIdle /\ PanelIdle /\ RankIdle /\ SteamIdle /\ FetchIdle /\ GameFormIdle /\ ColorCallIdle /\ PageIdle /\ SentimentIdle /\ GenreViewIdle /\ SessIdle /\ StageIdle /\ FmtIdle

NextFetch ==
    \/ ServerAddBacklogGame
    \/ IssueFetch
    \/ ServerAnswersFetch
    \/ FetchResponseArrives

SpecFetch == InitFetch /\ [][NextFetch]_vars

InitSteamLookup == StatusIdle /\ LibInit /\ GenreInit /\ DomIdle /\ LifeInit /\ EngIdle /\ AggIdle /\ ColorInit /\ AutocompleteIdle /\ PanelIdle /\ RankIdle /\ SteamIdle /\ FetchIdle /\ GameFormIdle /\ ColorCallIdle /\ PageIdle /\ SentimentIdle /\ GenreViewIdle /\ SessIdle /\ StageIdle /\ FmtIdle

NextSteamLookup ==
    \/ TypeTitle
    \/ InputAppId
    \/ BlurAppId
    \/ StartLookup
    \/ LookupSucceeds
    \/ LookupFails

SpecSteamLookup == InitSteamLookup /\ [][NextSteamLookup]_vars

NextAddGamePage ==
    \/ NextSteamLookup
    \/ PostNewGame
    \/ NewGameSaved
    \/ NewGameRejected

SpecAddGamePage == InitSteamLookup /\ [][NextAddGamePage]_vars

InitRankings == StatusIdle /\ LibInit /\ GenreInit /\ DomIdle /\ LifeInit /\ EngIdle /\ AggIdle /\ ColorInit /\ AutocompleteIdle /\ PanelIdle /\ RankIdle /\ SteamIdle /\ FetchIdle /\ GameFormIdle /\ ColorCallIdle /\ PageIdle /\ SentimentIdle /\ GenreViewIdle /\ SessIdle /\ StageIdle /\ FmtIdle

NextRankings ==
    \/ StartRankingsPage
    \/ ChangeRankStatus
    \/ RetryPair
    \/ PickGame
    \/ CompareAnswered
    \/ RankingAnswered
    \/ PairAnswered

SpecRankings == InitRankings /\ [][NextRankings]_vars

NextPairPanels ==
    \/ EnsurePairLoaded
    \/ PanelRetry
    \/ PanelPick
    \/ PanelCompareAnswered
    \/ PanelRankingsRefreshed
    \/ PanelPairAnswered

\* either page: the rankings page or the combined page with its two panels
NextPairSelection ==
    \/ PanelIdle /\ NextRankings
    \/ RankIdle /\ NextPairPanels

SpecPairSelection == InitRankings /\ [][NextPairSelection]_vars

InitAutocomplete == StatusIdle /\ LibInit /\ GenreInit /\ DomIdle /\ LifeInit /\ EngIdle /\ AggIdle /\ ColorInit /\ AutocompleteIdle /\ PanelIdle /\ RankIdle /\ SteamIdle /\ FetchIdle /\ GameFormIdle /\ ColorCallIdle /\ PageIdle /\ SentimentIdle /\ GenreViewIdle /\ SessIdle /\ StageIdle /\ FmtIdle

NextAutocomplete ==
    \/ OpenSessionForm
    \/ TypeSessionGame
    \/ FocusSessionGame
    \/ HideSessionGameOptions
    \/ HoverOption
    \/ KeyArrow
    \/ KeyEnter

SpecAutocomplete == InitAutocomplete /\ [][NextAutocomplete]_vars

===========================================================================
